---- MODULE Spec2Model ----
(***************************************************************************)
(* mm-engine-rs: the execution engine's protective halts, the stall flag   *)
(* protocol between ingestor, stall watcher and stall monitor, the         *)
(* drawdown monitor, the private-fill drain and the main quoting loop.     *)
(*                                                                         *)
(* Scaling of the f64 quantities:                                          *)
(*   balances, PnL            whole USD                                    *)
(*   positions, fill sizes    whole coins (every venue fill has size 1);   *)
(*                            the 1e-8 tolerances are below one unit       *)
(*   atr_fraction, funding    units of 1e-5                                *)
(*   spread multiplier        hundredths                                   *)
(* Every engine operation runs under the engine's async mutex, so a whole  *)
(* operation is one step; the venue, the WebSocket and the other tasks     *)
(* move between two operations.                                            *)
(***************************************************************************)
EXTENDS Integers, Sequences, FiniteSets, TLC

\* ---------------------------------------------------------------- bounds

\* Orders resting on the venue per coin.
MaxOrders == 1
\* Fills in the venue's history of the account.
MaxFills == 2
\* Cap of the total_cancels counter.
MaxCancels == 2
\* Cap of |position| a shadow-simulated fill may produce.
MaxShadowPos == 1
\* Cap of |position| and of a live position's size in the ledger harness.
MaxLedgerPos == 2
\* Last value of the clock, in units of 10 s.
MaxTime == 6
\* Taker trades the trades feed delivers.
MaxTrades == 2
\* Cap of |position| the simulated fills of the detailed loop may produce.
MaxInvCoins == 2
\* Runs of record_taker_trade calls fed to the OFI calculator.
MaxOfiRuns == 3
\* window_size of a PerformanceMonitor is at most MaxWindow, and at most
\* MaxRecorded trades are recorded.
MaxWindow == 3
MaxRecorded == 5
\* Orders of one signed action.
MaxSignOrders == 2
\* Waits of the ingestor's reconnection loop.
MaxWaits == 8
\* The last second of the wall clock.
MaxNow == 40
\* The count of the OFI records of one trade stops here.
MaxOfiFed == 2

\* ------------------------------------------------------------- constants

Coins == {"BTC", "ETH"}

\* MarketDataBuffer::add_user_fill keeps at most 500 fills.
UserFillsCap == 500

\* RegimeGovernor::new thresholds, in units of 1e-5.
CalmAtr == 150
ChaoticAtr == 500
MaxFundingHalt == 300

\* SimExchange::new(5_000.0, ..) in shadow mode.
SimBalance == 5000

\* Balances the venue reports in live mode, PnL values of the session, and
\* atr_fraction values the screener publishes.
LiveBalances == {0, 100}
Pnls == {0, -5}
ShadowPnls == {0, -250}
AtrValues == {0, 500}

NoCache == -1

\* delta.abs() > 1e-8 in InternalInventory::reconcile, in whole coins.
ReconcileTol == 0

\* MarketDataBuffer::add_trade keeps at most 1_000 trades per coin.
TradeBufferCap == 1000

\* OfiCalculator::new(200) in record_taker_trade; ofi_fraction needs at least
\* 20 events and more than 5_000 USD in the window.
OfiWindowSize == 200
OfiMinEvents == 20
OfiMinVolumeUsd == 5000

\* ShadowFill::new: the maker rebate is 0.01 % of the size, 1 basis point.
MakerRebateBps == 1

\* is_likely_filled(&key, 0.70), in percent; the layers 1..=3 a trade is fed to.
FillThresholdPct == 70
FeedLayers == 3

\* now_ms - last_refresh < 30_000 in the live branch, in units of 10 s.
RefreshInterval == 3

\* The asset config the screener publishes for every coin: max_inv_usd 10,
\* base_spread_bps 1.5 (in tenths of a basis point); and compute_quote_grid's
\* layer-1 size min_order_usd.max(12.0) for a min_order_usd of 10, in USD.
MaxInvUsd == 10
BaseSpreadTenthBps == 15
BaseSzUsd == 12

\* Prices are in units of 1e-4 USD. MidPx is the mid of every book and of
\* every all-mids entry; EntryPx the entry price of every live position.
PxUnit == 100 * 100
MidPx == 120000
EntryPx == 119000

VARIABLES
    \* MmExecutionEngine (behind the async mutex)
    shadow_mode,        \* config.shadow_mode
    halted,             \* MmExecutionEngine.halted
    total_cancels,      \* stats.total_cancels
    starting_balance,   \* stats.starting_balance
    daily_pnl_usd,      \* stats.daily_pnl_usd
    positions,          \* inventory.positions: coin -> signed size
    eng_lock,           \* holder of the engine mutex
    \* venue and LiveExchange
    resting,            \* venue: coin -> number of resting orders
    venue_fills,        \* venue: the fills so far, in order
    cached_positions,   \* LiveExchange.cached_positions: NoCache, or the
                        \* number of fills the cached snapshot contains
    \* MarketDataBuffer
    user_fills,         \* the private-fill queue (indices into venue_fills)
    ws_silent,          \* now - last_ws_message_ms > STALL_TIMEOUT_SECS
    \* ingestor
    ws_up,              \* the WebSocket is connected
    ws_sent,            \* venue fills the userFills feed has passed
    stall_flag,         \* StallPanicFlag
    \* stall monitor task
    mon_pc, mon_was, mon_now, mon_ret,
    \* drawdown monitor task
    dd_pc, dd_ret,
    dd_stopped,         \* check_global_drawdown_stop has returned true
    \* private fill processor task
    drain_fills,
    \* main loop
    main_pc, asset_configs, todo, last_active_coins, config_rx,
    regime_mult,        \* the tick's regime_mult: the multiplier read at its start
    \* regime governor
    gov_regime, gov_mult,
    \* history
    mult,               \* fill -> number of times its effect is in the ledger
    applied,            \* the fills the drain passed to apply_fill, in order
    \* InternalInventory, and the last call made on it directly
    open_orders,        \* inventory.open_orders
    inv_call,
    \* the quoting loop
    now,                \* the wall clock, in units of 10 s
    last_trade_ts,      \* main's last_trade_ts: coin -> time (0: no entry)
    coin_ret,           \* what the loop body did for the last coin
    flush_ret,          \* what the tick's last flush_orphaned_positions did
    trade_snap,         \* the tick's clone of the trade buffers
    \* MarketDataBuffer.trades and the shadow fill simulator
    trade_buffers,      \* coin -> the taker trades received, in order
    entries,            \* QueuePositionEstimator.entries: key -> entry
    \* history
    rounds,             \* coin -> times of the loop's cancel or place rounds
    fed,                \* trade id -> times it was fed to the estimator
    ofi_fed,            \* per trade id, the record_taker_trade calls made with it (2: two or more)
    margin_call,        \* the last has_sufficient_margin call made directly
    \* OfiCalculator of one coin (engine.ofi_trackers)
    ofi_window,         \* OfiCalculator.window: (is_buy, size_usd) events
    ofi_hist,           \* the record calls made, in order, as runs of n calls
    gov_call,           \* the last RegimeGovernor::update call made directly
    \* compute_quote_grid, called directly
    grid_in,            \* the arguments and MM_MAX_LAYERS
    grid_out,           \* the grid returned, once it was called
    \* the tasks of main() and the mutexes they hold
    lock_pc,            \* task -> the statement of its loop it is in
    lock_done,          \* task -> it has left that statement and not entered the next
    holding,            \* task -> the mutexes whose guards it holds
    lock_req,           \* task -> the statement it goes to next (0: not decided)
    \* a PerformanceMonitor
    window_size,        \* config.window_size
    history,            \* the results held, oldest first
    recorded,           \* the pnl of every record_trade call, in order
    \* sign_l1_action / sign_cancel_action, called directly
    sign_in,            \* the arguments
    sign_out,           \* the JSON action returned and the input of the hash
    \* connect_and_listen's reconnection loop
    retry_delay_secs,   \* the delay of the next wait
    ingest_pc,          \* "connect", "listening" or "sleep"
    connected,          \* the last connect_async answered Ok
    waits,              \* every wait so far: its seconds, and `connected` then
    \* the message loop and the stall watcher, alone
    ws_now,             \* the wall clock, in seconds
    last_ws_message_ms, \* MarketDataBuffer.last_ws_message_ms, in seconds
    last_arrival,       \* whether a message has arrived, and when the last one did
    stall_decl          \* the watcher's flag, and the clock when it stored true

vars == << shadow_mode, halted, total_cancels, starting_balance, daily_pnl_usd,
           positions, eng_lock, resting, venue_fills, cached_positions,
           user_fills, ws_silent, ws_up, ws_sent, stall_flag,
           mon_pc, mon_was, mon_now, mon_ret, dd_pc, dd_ret, dd_stopped, drain_fills,
           main_pc, asset_configs, todo, last_active_coins, regime_mult, config_rx,
           gov_regime, gov_mult, mult, applied, open_orders, inv_call,
           now, last_trade_ts, coin_ret, flush_ret, trade_snap, trade_buffers, entries,
           rounds, fed, ofi_fed, margin_call, ofi_window, ofi_hist, gov_call,
           grid_in, grid_out, lock_pc, lock_done, holding, lock_req,
           window_size, history, recorded, sign_in, sign_out,
           retry_delay_secs, ingest_pc, connected, waits,
           ws_now, last_ws_message_ms, last_arrival, stall_decl >>

engine_vars == << halted, total_cancels, starting_balance, positions >>
venue_vars == << resting, venue_fills, cached_positions >>
ws_vars == << user_fills, ws_silent, ws_up, ws_sent, stall_flag >>
mon_vars == << mon_pc, mon_was, mon_now, mon_ret >>
dd_vars == << dd_pc, dd_ret, dd_stopped >>
main_vars == << main_pc, asset_configs, todo, last_active_coins, regime_mult >>
gov_vars == << gov_regime, gov_mult >>
ofi_vars == << ofi_window, ofi_hist >>
grid_vars == << grid_in, grid_out >>
lock_vars == << lock_pc, lock_done, holding, lock_req >>
perf_vars == << window_size, history, recorded >>
sign_vars == << sign_in, sign_out >>
backoff_vars == << retry_delay_secs, ingest_pc, connected, waits >>
touch_vars == << ws_now, last_ws_message_ms, last_arrival, stall_decl >>
later_vars == << touch_vars >>
calc_vars == << ofi_vars, gov_call, grid_vars, lock_vars, perf_vars, sign_vars,
               backoff_vars, later_vars >>
const_vars == << shadow_mode, daily_pnl_usd, calc_vars >>
ledger_vars == << open_orders, inv_call >>
shadow_vars == << trade_buffers, entries, fed, ofi_fed >>
quote_vars == << now, last_trade_ts, margin_call, shadow_vars >>
loop_vars == << quote_vars, coin_ret, flush_ret, trade_snap, rounds >>
aux_vars == << applied, ledger_vars, loop_vars >>
sys_vars == << engine_vars, eng_lock, venue_vars, ws_vars, mon_vars, dd_vars,
              drain_fills, main_vars, config_rx, gov_vars, mult, shadow_mode,
              daily_pnl_usd, aux_vars >>

\* --------------------------------------------------------------- helpers

Abs(x) == IF x < 0 THEN -x ELSE x

Min(a, b) == IF a < b THEN a ELSE b

Max(a, b) == IF a > b THEN a ELSE b

FillIds == 1 .. MaxFills

\* No engine call has returned.
NoRet == [ok |-> TRUE, op |-> "none", cancel_ok |-> TRUE]

\* The exchange calls the engine sends, as records.
CancelCall(c) ==
    [op |-> "cancel_coin_orders", coin |-> c, direction |-> "", post_only |-> FALSE,
     price |-> 0, size |-> 0]

OpenCall(c, direction, size, price, post_only) ==
    [op |-> "open_order", coin |-> c, direction |-> direction, post_only |-> post_only,
     price |-> price, size |-> size]

\* The sequences that list every element of the set S once.
Orderings(S) ==
    { s \in [1 .. Cardinality(S) -> S] : \A i, j \in DOMAIN s : s[i] = s[j] => i = j }

\* The loop body has run for no coin in this tick.
NoCoinRet ==
    [fed |-> << >>, coin |-> "", bal |-> [ok |-> TRUE, bal |-> 0], cancels |-> 0,
     confirmed |-> 0, filled |-> << >>,
     gate |-> "none", inv |-> 0, notional |-> 0,
     placed |-> << >>, registered |-> {}, seen |-> << >>, seen_ok |-> TRUE,
     targets |-> << >>]

\* The signer has not been called directly.
NoSignIn == [kind |-> "none"]
NoSignOut == [called |-> FALSE]

\* compute_quote_grid has not been called directly.
NoGridIn == [mid_price |-> 0]
NoGridOut == [called |-> FALSE, grid |-> [bids |-> << >>, asks |-> << >>]]

\* RegimeGovernor::update has not been called directly.
NoGovCall == [op |-> "none", atr |-> 0, cfr |-> 0, p95 |-> 0, funding |-> 0]

\* No flush has run in this tick.
NoFlushRet == [calls |-> << >>, live |-> {}, mids |-> << >>, mids_ok |-> FALSE]

\* QueuePositionEstimator::new(): no simulated order is registered.
NoEntries == [k \in {} |-> 0]

\* No call has been made on the ledger directly.
NoCall == [op |-> "none", live |-> {}, ret |-> {}]

\* InternalInventory::default(): no resting order is recorded.
NoOpenOrders == [c \in {} |-> {}]

\* The venue's signed position in coin c after its first k fills.
RECURSIVE VenuePosAt(_, _)
VenuePosAt(k, c) ==
    IF k = 0 THEN 0
    ELSE VenuePosAt(k - 1, c)
         + (IF venue_fills[k].coin # c THEN 0
            ELSE IF venue_fills[k].side = "B" THEN 1 ELSE -1)

\* ------------------------------------------------------- exchange client

\* Outcomes of ExchangeClient::cancel_all_orders: Ok(n) or Err.
CancelOutcomes(total) ==
    [kind : {"ok"}, n : 0 .. total] \cup {[kind |-> "err", n |-> 0]}

\* The Position list built from a clearinghouse state holding the first k
\* fills: zero-sized positions are skipped, direction and size are split.
LivePositions(k) ==
    { [coin |-> c,
       direction |-> IF VenuePosAt(k, c) > 0 THEN "LONG" ELSE "SHORT",
       size |-> Abs(VenuePosAt(k, c)),
       entry_price |-> EntryPx] : c \in {x \in Coins : VenuePosAt(k, x) # 0} }

\* Outcomes of ExchangeClient::get_positions. SimExchange holds no position
\* (shadow mode opens none) and never fails; LiveExchange answers from its
\* cache while it is fresh, and else fetches, which may fail.
PositionOutcomes(cache) ==
    IF shadow_mode THEN {[ok |-> TRUE, k |-> 0]}
    ELSE IF cache # NoCache THEN {[ok |-> TRUE, k |-> cache]}
    ELSE {[ok |-> FALSE, k |-> 0], [ok |-> TRUE, k |-> Len(venue_fills)]}

\* cached_positions after a get_positions with outcome po.
CacheAfter(cache, po) ==
    IF shadow_mode \/ ~po.ok THEN cache ELSE po.k

\* Outcomes of ExchangeClient::get_balance.
BalanceOutcomes ==
    IF shadow_mode THEN {[ok |-> TRUE, bal |-> SimBalance]}
    ELSE {[ok |-> FALSE, bal |-> 0]} \cup [ok : {TRUE}, bal : LiveBalances]

\* Resting-order maps the venue can be left in when n orders in all are
\* cancelled out of r.
AfterCancel(r, n) ==
    { r2 \in [Coins -> 0 .. MaxOrders] :
        /\ \A c \in Coins : r2[c] <= r[c]
        /\ (r["BTC"] - r2["BTC"]) + (r["ETH"] - r2["ETH"]) = n }

TotalResting(r) == r["BTC"] + r["ETH"]

\* ------------------------------------------------------ inventory ledger

\* InternalInventory.positions is a HashMap: a function on the coins that
\* have an entry. NoPositions is the empty map.
NoPositions == [c \in {} |-> 0]

\* positions.get(coin).cloned().unwrap_or(0.0)
PosOf(pos, coin) == IF coin \in DOMAIN pos THEN pos[coin] ELSE 0

Signed(p) == IF p.direction = "LONG" THEN p.size ELSE -p.size

\* InternalInventory::apply_fill: entry(coin).or_insert(0.0), then += or -=.
apply_fill(pos, coin, is_buy, size) ==
    [c \in DOMAIN pos \cup {coin} |->
        IF c # coin THEN pos[c]
        ELSE IF is_buy THEN PosOf(pos, coin) + size ELSE PosOf(pos, coin) - size]

\* The positions of the live list InternalInventory::reconcile overwrites:
\* those whose signed size differs from the internal one by more than 1e-8.
ReconcileDiffs(pos, live) ==
    { p \in live : Abs(Signed(p) - PosOf(pos, p.coin)) > ReconcileTol }

InventoryReconcile_Unsigned(pos, live) ==
    [c \in DOMAIN pos \cup { p.coin : p \in ReconcileDiffs(pos, live) } |->
        IF \E p \in ReconcileDiffs(pos, live) : p.coin = c
        THEN (CHOOSE p \in ReconcileDiffs(pos, live) : p.coin = c).size
        ELSE pos[c]]

InventoryReconcile_DropsAbsent(pos, live) ==
    [c \in { p.coin : p \in live } |->
        Signed(CHOOSE p \in live : p.coin = c)]

\* The ledger InternalInventory::reconcile leaves.
InventoryReconcile(pos, live) ==
    [c \in DOMAIN pos \cup { p.coin : p \in ReconcileDiffs(pos, live) } |->
        IF \E p \in ReconcileDiffs(pos, live) : p.coin = c
        THEN Signed(CHOOSE p \in ReconcileDiffs(pos, live) : p.coin = c)
        ELSE pos[c]]

\* The list InternalInventory::reconcile returns: (coin, internal, live,
\* delta) of every position it overwrote.
ReconcileReport(pos, live) ==
    { [coin |-> p.coin, live |-> Signed(p), delta |-> Signed(p) - PosOf(pos, p.coin),
       internal |-> PosOf(pos, p.coin)] : p \in ReconcileDiffs(pos, live) }

\* The fill multiplicities after a reconcile wrote the snapshot holding the
\* first k fills: a coin that was overwritten now holds exactly those.
MultAfterReconcile(m, pos, k) ==
    [f \in FillIds |->
        IF /\ f <= Len(venue_fills)
           /\ \E p \in ReconcileDiffs(pos, LivePositions(k)) : p.coin = venue_fills[f].coin
        THEN (IF f <= k THEN 1 ELSE 0)
        ELSE m[f]]

\* The private fill processor's loop body over the drained fills, in order.
RECURSIVE ApplyFills(_, _)
ApplyFills(pos, fills) ==
    IF fills = << >> THEN pos
    ELSE ApplyFills(apply_fill(pos, venue_fills[Head(fills)].coin,
                               venue_fills[Head(fills)].side = "B",
                               venue_fills[Head(fills)].sz),
                    Tail(fills))

\* ------------------------------------------------------ execution engine

\* SessionStats::daily_drawdown_pct() >= config.global_halt_drawdown_pct
GlobalHaltDrawdownPct == 5

DrawdownBreached(sb, pnl) ==
    /\ sb > 0
    /\ (-Min(pnl, 0)) * 100 >= GlobalHaltDrawdownPct * sb

\* SessionStats::cancel_fill_ratio: total_fills is never incremented.
cancel_fill_ratio(tc) == tc

cancel_all_NoHaltOnError(h, tc, out) ==
    IF shadow_mode
    THEN [halted |-> h, total_cancels |-> tc, called |-> FALSE, ret |-> 0]
    ELSE IF out.kind = "ok"
         THEN [halted |-> h, total_cancels |-> tc + out.n, called |-> TRUE, ret |-> out.n]
         ELSE [halted |-> h, total_cancels |-> tc, called |-> TRUE, ret |-> 0]

\* MmExecutionEngine::cancel_all with the exchange answering out.
cancel_all(h, tc, out) ==
    IF shadow_mode
    THEN [halted |-> h, total_cancels |-> tc, called |-> FALSE, ret |-> 0]
    ELSE IF out.kind = "ok"
         THEN [halted |-> h, total_cancels |-> tc + out.n, called |-> TRUE, ret |-> out.n]
         ELSE [halted |-> TRUE, total_cancels |-> tc, called |-> TRUE, ret |-> 0]

reconcile_KeepsHalted(h, tc, pos, sb, co, po, bo) ==
    LET ca == cancel_all(h, tc, co) IN
    IF po.ok
    THEN [halted |-> ca.halted,
          total_cancels |-> ca.total_cancels,
          starting_balance |-> IF bo.ok /\ sb <= 0 THEN bo.bal ELSE sb,
          positions |-> InventoryReconcile(pos, LivePositions(po.k))]
    ELSE [halted |-> TRUE, total_cancels |-> ca.total_cancels,
          starting_balance |-> sb, positions |-> pos]

\* MmExecutionEngine::reconcile_after_reconnect with the exchange answering
\* co to cancel-all, po to get_positions and bo to get_balance.
reconcile_after_reconnect(h, tc, pos, sb, co, po, bo) ==
    LET ca == cancel_all(h, tc, co) IN
    IF po.ok
    THEN [halted |-> FALSE,
          total_cancels |-> ca.total_cancels,
          starting_balance |-> IF bo.ok /\ sb <= 0 THEN bo.bal ELSE sb,
          positions |-> InventoryReconcile(pos, LivePositions(po.k))]
    ELSE [halted |-> TRUE, total_cancels |-> ca.total_cancels,
          starting_balance |-> sb, positions |-> pos]

drawdown_StrictCompare(h, tc, sb, pnl, co) ==
    IF sb > 0 /\ (-Min(pnl, 0)) * 100 > GlobalHaltDrawdownPct * sb
    THEN [halted |-> TRUE, total_cancels |-> cancel_all(h, tc, co).total_cancels,
          called |-> cancel_all(h, tc, co).called, ret |-> TRUE]
    ELSE [halted |-> h, total_cancels |-> tc, called |-> FALSE, ret |-> FALSE]

drawdown_HaltsAlways(h, tc, sb, pnl, co) ==
    IF DrawdownBreached(sb, pnl)
    THEN [halted |-> TRUE, total_cancels |-> cancel_all(h, tc, co).total_cancels,
          called |-> cancel_all(h, tc, co).called, ret |-> TRUE]
    ELSE [halted |-> TRUE, total_cancels |-> tc, called |-> FALSE, ret |-> FALSE]

\* MmExecutionEngine::check_global_drawdown_stop; called is whether the
\* exchange's cancel-all was reached.
check_global_drawdown_stop(h, tc, sb, pnl, co) ==
    IF DrawdownBreached(sb, pnl)
    THEN [halted |-> TRUE, total_cancels |-> cancel_all(h, tc, co).total_cancels,
          called |-> cancel_all(h, tc, co).called, ret |-> TRUE]
    ELSE [halted |-> h, total_cancels |-> tc, called |-> FALSE, ret |-> FALSE]

\* ------------------------------------------------------- regime governor

\* The spread multiplier is kept exactly, in units of 1 / MultUnit: the
\* volatility multiplier is a multiple of 1 / (ChaoticAtr - CalmAtr), the
\* cancel-to-fill multiplier of 1 / 50 and the latency multiplier of 1 / 2.
MultUnit == (ChaoticAtr - CalmAtr) * 50 * 2

RegimeUpdate_UncertainFrom(m, atr, cfr, p95, funding) ==
    IF atr >= ChaoticAtr THEN [mult |-> m, regime |-> "halt"]
    ELSE
      LET vol == IF atr >= CalmAtr
                 THEN (ChaoticAtr - CalmAtr) + (atr - CalmAtr) * 2
                 ELSE ChaoticAtr - CalmAtr
          cfm == IF cfr > 100 THEN 100
                 ELSE IF cfr > 50 THEN 50 + (cfr - 50)
                 ELSE 50
          lat == IF p95 > 100000 THEN 4
                 ELSE IF p95 > 50000 THEN 3
                 ELSE 2
          combined == Max(MultUnit, Min(4 * MultUnit, vol * cfm * lat))
      IN IF Abs(funding) >= MaxFundingHalt THEN [mult |-> m, regime |-> "halt"]
         ELSE [mult |-> combined,
               regime |-> IF 2 * combined >= 3 * MultUnit THEN "uncertain" ELSE "calm"]

\* RegimeGovernor::update; the multiplier is left as it was on a halt.
\* vol is vol_mult * (ChaoticAtr - CalmAtr), cfm is cfr_mult * 50 and lat is
\* lat_mult * 2, so that vol * cfm * lat is the product in units of
\* 1 / MultUnit; combined > 1.5 is 2 * combined > 3 * MultUnit.
RegimeUpdate(m, atr, cfr, p95, funding) ==
    IF atr >= ChaoticAtr THEN [mult |-> m, regime |-> "halt"]
    ELSE
      LET vol == IF atr >= CalmAtr
                 THEN (ChaoticAtr - CalmAtr) + (atr - CalmAtr) * 2
                 ELSE ChaoticAtr - CalmAtr
          cfm == IF cfr > 100 THEN 100
                 ELSE IF cfr > 50 THEN 50 + (cfr - 50)
                 ELSE 50
          lat == IF p95 > 100000 THEN 4
                 ELSE IF p95 > 50000 THEN 3
                 ELSE 2
          combined == Max(MultUnit, Min(4 * MultUnit, vol * cfm * lat))
      IN IF Abs(funding) >= MaxFundingHalt THEN [mult |-> m, regime |-> "halt"]
         ELSE [mult |-> combined,
               regime |-> IF 2 * combined > 3 * MultUnit THEN "uncertain" ELSE "calm"]

\* LatencyAuditor::p95_us: nothing records a sample.
p95_us == 0

\* ------------------------------------------------------------------ Init

\* The tasks as main() spawns them, the engine as MmExecutionEngine::new
\* builds it, no connection yet.
InitEngine ==
    /\ halted = FALSE
    /\ total_cancels = 0
    /\ positions = NoPositions
    /\ eng_lock = "free"
    /\ cached_positions = NoCache
    /\ user_fills = << >>
    /\ ws_silent = FALSE
    /\ ws_up = FALSE
    /\ stall_flag = FALSE
    /\ mon_pc = "sleep" /\ mon_was = FALSE /\ mon_now = FALSE /\ mon_ret = NoRet
    /\ dd_pc = "sleep" /\ dd_ret = FALSE /\ dd_stopped = FALSE
    /\ drain_fills = << >>
    /\ main_pc = "sleep" /\ asset_configs = {} /\ todo = {} /\ regime_mult = MultUnit
    /\ last_active_coins = {}
    /\ gov_regime = "calm" /\ gov_mult = MultUnit
    /\ mult = [f \in FillIds |-> 0]
    /\ applied = << >>
    /\ inv_call = NoCall
    /\ now = RefreshInterval
    /\ last_trade_ts = [c \in Coins |-> 0]
    /\ coin_ret = NoCoinRet
    /\ flush_ret = NoFlushRet
    /\ trade_snap = [c \in Coins |-> << >>]
    /\ trade_buffers = [c \in Coins |-> << >>]
    /\ entries = NoEntries
    /\ rounds = [c \in Coins |-> << >>]
    /\ fed = << >>
    /\ ofi_fed = << >>
    /\ margin_call = NoCall
    /\ ofi_window = << >>
    /\ ofi_hist = << >>
    /\ gov_call = NoGovCall
    /\ lock_pc = [t \in {"ingestor", "watchdog", "fills", "latency", "stall", "dd",
                          "reporter", "main"} |-> 1]
    /\ lock_done = [t \in DOMAIN lock_pc |-> FALSE]
    /\ holding = [t \in DOMAIN lock_pc |-> {}]
    /\ lock_req = [t \in DOMAIN lock_pc |-> 0]
    /\ retry_delay_secs = 1
    /\ ingest_pc = "connect"
    /\ connected = FALSE
    /\ waits = << >>
    /\ ws_now = 0
    /\ last_ws_message_ms = 0
    /\ last_arrival = [any |-> FALSE, at |-> 0]
    /\ stall_decl = [at |-> 0, flag |-> FALSE]

\* compute_quote_grid is called by the per-asset loop only, and nothing
\* builds a PerformanceMonitor.
InitTasks ==
    /\ InitEngine
    /\ sign_in = NoSignIn
    /\ sign_out = NoSignOut
    /\ window_size = 0
    /\ history = << >>
    /\ recorded = << >>
    /\ grid_in = NoGridIn
    /\ grid_out = NoGridOut

\* A session in shadow or live mode; in live mode the account may already
\* hold a position from an earlier session, and the balance fetch at startup
\* may have failed (starting_balance 0). The screener has published its
\* whitelist, which Init, InitPnl and InitLedger fix.
InitSession ==
    /\ InitTasks
    /\ shadow_mode \in BOOLEAN
    /\ starting_balance \in (IF shadow_mode THEN {SimBalance} ELSE LiveBalances)
    /\ venue_fills \in (IF shadow_mode THEN {<< >>}
                        ELSE {<< >>, << [coin |-> "BTC", side |-> "B", sz |-> 1] >>})
    /\ ws_sent = Len(venue_fills)
    /\ resting = [c \in Coins |-> 0]
    /\ open_orders = NoOpenOrders

\* The program as it is: nothing writes stats.daily_pnl_usd, it stays 0.
\* Both coins are whitelisted.
Init ==
    /\ InitSession
    /\ daily_pnl_usd = 0
    /\ config_rx = Coins

\* stats is a public field: the session's PnL as an input. One coin is
\* whitelisted.
InitPnl ==
    /\ InitSession
    /\ daily_pnl_usd \in (IF shadow_mode THEN ShadowPnls ELSE Pnls)
    /\ config_rx = {"BTC"}

\* ------------------------------------------------- screener, venue, time

\* The screener publishes a new asset-config list on the watch channel.
ScreenerPublish ==
    /\ \E S \in SUBSET Coins : S # config_rx /\ config_rx' = S
    /\ UNCHANGED << engine_vars, eng_lock, venue_vars, ws_vars, mon_vars, dd_vars,
                    drain_fills, main_vars, gov_vars, mult, const_vars, aux_vars >>

\* One of the account's resting orders is filled on the venue.
VenueFill ==
    /\ ~shadow_mode
    /\ Len(venue_fills) < MaxFills
    /\ \E c \in Coins, side \in {"B", "A"} :
        /\ resting[c] > 0
        /\ venue_fills' = Append(venue_fills, [coin |-> c, side |-> side, sz |-> 1])
        /\ resting' = [resting EXCEPT ![c] = @ - 1]
    /\ ws_sent' = IF ws_up THEN ws_sent ELSE Len(venue_fills) + 1
    /\ UNCHANGED << engine_vars, eng_lock, cached_positions, user_fills, ws_silent,
                    ws_up, stall_flag, mon_vars, dd_vars, drain_fills, main_vars,
                    config_rx, gov_vars, mult, const_vars, aux_vars >>

\* CACHE_DURATION (2 s) passes since the positions were cached.
CacheExpire ==
    /\ cached_positions # NoCache
    /\ cached_positions' = NoCache
    /\ UNCHANGED << engine_vars, eng_lock, resting, venue_fills, ws_vars, mon_vars,
                    dd_vars, drain_fills, main_vars, config_rx, gov_vars,
                    mult, const_vars, aux_vars >>

\* STALL_TIMEOUT_SECS pass without a WebSocket message.
TimePasses ==
    /\ ~ws_silent
    /\ ws_silent' = TRUE
    /\ UNCHANGED << engine_vars, eng_lock, venue_vars, user_fills, ws_up, ws_sent,
                    stall_flag, mon_vars, dd_vars, drain_fills, main_vars,
                    config_rx, gov_vars, mult, const_vars, aux_vars >>

\* -------------------------------------------------------------- ingestor

\* connect_async succeeds: the flag is cleared; the userFills snapshot sent
\* on subscription is ignored, so fills made while down are never queued.
IngestorConnect ==
    /\ ~ws_up
    /\ ws_up' = TRUE
    /\ stall_flag' = FALSE
    /\ ws_sent' = Len(venue_fills)
    /\ UNCHANGED << engine_vars, eng_lock, venue_vars, user_fills, ws_silent,
                    mon_vars, dd_vars, drain_fills, main_vars, config_rx,
                    gov_vars, mult, const_vars, aux_vars >>

\* An l2Book, trades, ping or pong message: MarketDataBuffer::touch.
WsMessage ==
    /\ ws_up
    /\ ws_silent' = FALSE
    /\ UNCHANGED << engine_vars, eng_lock, venue_vars, user_fills, ws_up, ws_sent,
                    stall_flag, mon_vars, dd_vars, drain_fills, main_vars,
                    config_rx, gov_vars, mult, const_vars, aux_vars >>

add_user_fill_PushFront(q, f) ==
    IF Len(q) >= UserFillsCap THEN << f >> \o Tail(q) ELSE << f >> \o q

\* MarketDataBuffer::add_user_fill
add_user_fill(q, f) ==
    IF Len(q) >= UserFillsCap THEN Append(Tail(q), f) ELSE Append(q, f)

\* A userFills message (not a snapshot) with the next fill.
WsUserFill ==
    /\ ws_up
    /\ ~shadow_mode
    /\ ws_sent < Len(venue_fills)
    /\ user_fills' = add_user_fill(user_fills, ws_sent + 1)
    /\ ws_sent' = ws_sent + 1
    /\ ws_silent' = FALSE
    /\ UNCHANGED << engine_vars, eng_lock, venue_vars, ws_up, stall_flag, mon_vars,
                    dd_vars, drain_fills, main_vars, config_rx, gov_vars,
                    mult, const_vars, aux_vars >>

\* The connection closes or errors; the message loop breaks.
WsDrop ==
    /\ ws_up
    /\ ws_up' = FALSE
    /\ ws_sent' = Len(venue_fills)
    /\ UNCHANGED << engine_vars, eng_lock, venue_vars, user_fills, ws_silent,
                    stall_flag, mon_vars, dd_vars, drain_fills, main_vars,
                    config_rx, gov_vars, mult, const_vars, aux_vars >>

\* The stall watcher's poll. The buffer read, the flag load and the flag
\* store are one step: the only other store is the ingestor's store of
\* false, and it commutes with the load.
StallWatcher ==
    /\ ws_silent /\ ~stall_flag
    /\ stall_flag' = TRUE
    /\ UNCHANGED << engine_vars, eng_lock, venue_vars, user_fills, ws_silent, ws_up,
                    ws_sent, mon_vars, dd_vars, drain_fills, main_vars, config_rx,
                    gov_vars, mult, const_vars, aux_vars >>

\* --------------------------------------------------- stall panic monitor

\* What an exchange-wide cancel-all that answered co leaves resting.
RestingAfter(r, called, co) ==
    IF called /\ co.kind = "ok" THEN AfterCancel(r, co.n) ELSE {r}

\* let now = sw.load(SeqCst); with neither edge, was = now changes nothing
\* and the task sleeps again.
MonLoad ==
    /\ mon_pc = "sleep"
    /\ mon_now' = stall_flag
    /\ mon_pc' = IF stall_flag # mon_was THEN "edge" ELSE "sleep"
    /\ UNCHANGED << engine_vars, eng_lock, venue_vars, ws_vars, mon_was, mon_ret,
                    dd_vars, drain_fills, main_vars, config_rx, gov_vars,
                    mult, const_vars, aux_vars >>

\* if now && !was { ew.lock().await.cancel_all().await; } with the exchange
\* answering co; the step ends when cancel_all has returned.
MonCancelAll(co) ==
    /\ mon_pc = "edge" /\ mon_now /\ ~mon_was
    /\ eng_lock = "free"
    /\ LET ca == cancel_all(halted, total_cancels, co) IN
        /\ ca.total_cancels <= MaxCancels
        /\ halted' = ca.halted
        /\ total_cancels' = ca.total_cancels
        /\ resting' \in RestingAfter(resting, ca.called, co)
        /\ mon_ret' = [ok |-> ~(ca.called /\ co.kind = "err"), op |-> "cancel_all",
                        cancel_ok |-> ~(ca.called /\ co.kind = "err")]
    /\ eng_lock' = "mon"
    /\ mon_pc' = "ret"
    /\ UNCHANGED << starting_balance, positions, venue_fills, cached_positions,
                    ws_vars, mon_was, mon_now, dd_vars, drain_fills, main_vars,
                    config_rx, gov_vars, mult, const_vars, aux_vars >>

\* if was && !now { ew.lock().await.reconcile_after_reconnect().await; }
\* with the exchange answering co, po and bo.
MonReconcile(co, po, bo) ==
    /\ mon_pc = "edge" /\ mon_was /\ ~mon_now
    /\ eng_lock = "free"
    /\ LET r == reconcile_after_reconnect(halted, total_cancels, positions,
                                          starting_balance, co, po, bo)
       IN
        /\ r.total_cancels <= MaxCancels
        /\ halted' = r.halted
        /\ total_cancels' = r.total_cancels
        /\ positions' = r.positions
        /\ starting_balance' = r.starting_balance
        /\ resting' \in RestingAfter(resting, ~shadow_mode, co)
        /\ cached_positions' = CacheAfter(cached_positions, po)
        /\ mult' = (IF po.ok THEN MultAfterReconcile(mult, positions, po.k) ELSE mult)
        /\ mon_ret' = [ok |-> po.ok, op |-> "reconcile",
                        cancel_ok |-> ~(~shadow_mode /\ co.kind = "err")]
    /\ eng_lock' = "mon"
    /\ mon_pc' = "ret"
    /\ UNCHANGED << venue_fills, ws_vars, mon_was, mon_now, dd_vars, drain_fills,
                    main_vars, config_rx, gov_vars, const_vars, aux_vars >>

\* The engine call returned: the guard is dropped, was = now, sleep.
MonFinish ==
    /\ mon_pc = "ret"
    /\ eng_lock' = "free"
    /\ mon_was' = mon_now
    /\ mon_pc' = "sleep"
    /\ mon_ret' = NoRet
    /\ UNCHANGED << engine_vars, venue_vars, ws_vars, mon_now, dd_vars, drain_fills,
                    main_vars, config_rx, gov_vars, mult, const_vars, aux_vars >>

MonCancelAllStep ==
    \E co \in CancelOutcomes(TotalResting(resting)) : MonCancelAll(co)

MonReconcileStep ==
    \E co \in CancelOutcomes(TotalResting(resting)),
       po \in PositionOutcomes(cached_positions),
       bo \in BalanceOutcomes : MonReconcile(co, po, bo)

\* ------------------------------------------------ drawdown + C/F monitor

\* let mut eng = ed.lock().await; eng.check_global_drawdown_stop().await;
\* with the exchange answering co; dd_ret is the value returned.
DdCheck(co) ==
    /\ dd_pc = "sleep"
    /\ eng_lock = "free"
    /\ LET d == check_global_drawdown_stop(halted, total_cancels, starting_balance,
                                           daily_pnl_usd, co) IN
        /\ d.total_cancels <= MaxCancels
        /\ halted' = d.halted
        /\ total_cancels' = d.total_cancels
        /\ resting' \in RestingAfter(resting, d.called, co)
        /\ dd_ret' = d.ret
        /\ dd_stopped' = (dd_stopped \/ d.ret)
    /\ eng_lock' = "dd"
    /\ dd_pc' = "ret"
    /\ UNCHANGED << starting_balance, positions, venue_fills, cached_positions,
                    ws_vars, mon_vars, drain_fills, main_vars, config_rx, gov_vars,
                    mult, const_vars, aux_vars >>

DdCheckStep ==
    \E co \in CancelOutcomes(TotalResting(resting)) : DdCheck(co)

\* gv.lock().unwrap().update(0.0, cfr, p95, 0.0); the guard drops at the end
\* of the loop body.
DdUpdate ==
    /\ dd_pc = "ret"
    /\ LET g == RegimeUpdate(gov_mult, 0, cancel_fill_ratio(total_cancels), p95_us, 0) IN
        /\ gov_regime' = g.regime
        /\ gov_mult' = g.mult
    /\ eng_lock' = "free"
    /\ dd_pc' = "sleep"
    /\ dd_ret' = FALSE
    /\ UNCHANGED dd_stopped
    /\ UNCHANGED << engine_vars, venue_vars, ws_vars, mon_vars, drain_fills,
                    main_vars, config_rx, mult, const_vars, aux_vars >>

\* ------------------------------------------------ private fill processor

\* std::mem::take(&mut buf.user_fills)
DrainTake ==
    /\ drain_fills = << >>
    /\ user_fills # << >>
    /\ drain_fills' = user_fills
    /\ user_fills' = << >>
    /\ UNCHANGED << engine_vars, eng_lock, venue_vars, ws_silent, ws_up, ws_sent,
                    stall_flag, mon_vars, dd_vars, main_vars, config_rx, gov_vars,
                    mult, const_vars, aux_vars >>

\* let mut eng = ee.lock().await; for fill in fills { apply_fill }
DrainApply ==
    /\ drain_fills # << >>
    /\ eng_lock = "free"
    /\ positions' = ApplyFills(positions, drain_fills)
    /\ mult' = [f \in FillIds |->
                  mult[f] + Cardinality({i \in DOMAIN drain_fills : drain_fills[i] = f})]
    /\ applied' = applied \o drain_fills
    /\ drain_fills' = << >>
    /\ UNCHANGED << halted, total_cancels, starting_balance, eng_lock, venue_vars,
                    ws_vars, mon_vars, dd_vars, main_vars, config_rx, gov_vars,
                    const_vars, ledger_vars, loop_vars >>

\* ------------------------------------------------------------- main loop

\* What cancel_coin_orders followed by one maker-close order leaves resting
\* for every orphaned coin: any number of the coin's orders is cancelled
\* (a failed cancel is only logged), and the close order is placed or fails.
OrphanResults(r, orphans) ==
    { r2 \in [Coins -> 0 .. MaxOrders] :
        \A c \in Coins :
            IF c \in orphans
            THEN \E kept \in 0 .. r[c], placed \in {0, 1} : r2[c] = kept + placed
            ELSE r2[c] = r[c] }

\* Answers of ExchangeClient::get_all_mids, on the coins S: the coins of S
\* that have a mid.
MidsMaps(S) == { [c \in H |-> MidPx] : H \in SUBSET S }

FlushCalls_SameDirection(ord, mids) ==
    [i \in 1 .. 2 * Len(ord) |->
        LET pos == ord[(i + 1) \div 2] IN
        IF i % 2 = 1 THEN CancelCall(pos.coin)
        ELSE OpenCall(pos.coin, pos.direction, pos.size,
                      IF pos.coin \in DOMAIN mids THEN mids[pos.coin] ELSE pos.entry_price,
                      TRUE)]

\* The calls flush_orphaned_positions sends for the orphaned positions ord,
\* in order: cancel_coin_orders, then one post-only order of the position's
\* size in the opposite direction at the coin's mid, or at the entry price
\* when the coin has no mid.
FlushCalls(ord, mids) ==
    [i \in 1 .. 2 * Len(ord) |->
        LET pos == ord[(i + 1) \div 2] IN
        IF i % 2 = 1 THEN CancelCall(pos.coin)
        ELSE OpenCall(pos.coin,
                      IF pos.direction = "LONG" THEN "SHORT" ELSE "LONG",
                      pos.size,
                      IF pos.coin \in DOMAIN mids THEN mids[pos.coin] ELSE pos.entry_price,
                      TRUE)]

\* A flush that met no orphaned position: it sent nothing.
NoFlush(r, cache) ==
    [resting |-> r, calls |-> << >>, live |-> {}, mids |-> << >>,
     mids_ok |-> FALSE, cache |-> cache]

\* MmExecutionEngine::flush_orphaned_positions(active): the calls it sends,
\* and the venue's resting orders and the positions cache it can leave
\* behind. When the list get_positions returns holds an orphaned position,
\* live is that list, mids_ok tells whether get_all_mids answered and mids
\* is its answer on the orphaned coins.
FlushOutcomes(r, cache, active) ==
    IF shadow_mode THEN {NoFlush(r, cache)}
    ELSE UNION {
        LET c2 == CacheAfter(cache, po)
            live == LivePositions(po.k)
            orphans == { q \in live : q.coin \notin active /\ q.size > 0 }
        IN IF ~po.ok \/ live = {} \/ orphans = {}
           THEN {NoFlush(r, c2)}
           ELSE {[resting |-> r, calls |-> << >>, live |-> live, mids |-> << >>,
                  mids_ok |-> FALSE, cache |-> c2]}
                \cup { [resting |-> r2, calls |-> FlushCalls(ord, mids), live |-> live, mids |-> mids,
                        mids_ok |-> TRUE, cache |-> c2] :
                        r2 \in OrphanResults(r, { q.coin : q \in orphans }),
                        ord \in Orderings(orphans),
                        mids \in MidsMaps({ q.coin : q \in orphans }) }
        : po \in PositionOutcomes(cache) }

\* What a flush with outcome fo fetched and sent.
FlushRet(fo) ==
    [calls |-> fo.calls, live |-> fo.live, mids |-> fo.mids, mids_ok |-> fo.mids_ok]

\* The live branch for one coin: rate-limited or sticky (nothing is sent);
\* else cancel_coin_orders, the margin check, and the grid's orders.
LiveRefreshResults(r, c) ==
    {r}
    \cup { [r EXCEPT ![c] = kept] : kept \in 0 .. r[c] }     \* margin check failed
    \cup UNION { { [r EXCEPT ![c] = kept + placed] : placed \in 0 .. (MaxOrders - kept) }
                 : kept \in 0 .. r[c] }

\* The shadow branch for one coin: the queue estimator may report a fill,
\* which is applied to the ledger.
ShadowResults(pos, c) ==
    {pos} \cup { apply_fill(pos, c, b, 1) : b \in { x \in BOOLEAN :
                    Abs(apply_fill(pos, c, x, 1)[c]) <= MaxShadowPos } }

MainTickStart_AllCoins ==
    /\ main_pc = "sleep"
    /\ eng_lock = "free"
    /\ IF halted \/ gov_regime = "halt"
       THEN UNCHANGED << main_pc, asset_configs, regime_mult >>
       ELSE /\ asset_configs' = Coins
            /\ regime_mult' = gov_mult
            /\ main_pc' = "flush"
    /\ UNCHANGED << engine_vars, eng_lock, venue_vars, ws_vars, mon_vars, dd_vars,
                    drain_fills, todo, last_active_coins, config_rx, gov_vars,
                    mult, const_vars, aux_vars >>

\* Tick entry: is_halted, the governor's halt, the config snapshot.
MainTickStart ==
    /\ main_pc = "sleep"
    /\ eng_lock = "free"
    /\ IF halted \/ gov_regime = "halt"
       THEN UNCHANGED << main_pc, asset_configs, regime_mult >>
       ELSE /\ asset_configs' = config_rx
            /\ regime_mult' = gov_mult
            /\ main_pc' = "flush"
    /\ UNCHANGED << engine_vars, eng_lock, venue_vars, ws_vars, mon_vars, dd_vars,
                    drain_fills, todo, last_active_coins, config_rx, gov_vars,
                    mult, const_vars, aux_vars >>

\* Instant flush on whitelist change (live mode).
MainWhitelistFlush ==
    /\ main_pc = "flush"
    /\ IF ~shadow_mode /\ asset_configs # last_active_coins
       THEN /\ last_active_coins' = asset_configs
            /\ IF last_active_coins \ asset_configs # {}
               THEN /\ eng_lock = "free"
                    /\ \E fo \in FlushOutcomes(resting, cached_positions, asset_configs) :
                        /\ resting' = fo.resting
                        /\ cached_positions' = fo.cache
                        /\ flush_ret' = FlushRet(fo)
               ELSE UNCHANGED << resting, cached_positions, flush_ret >>
       ELSE UNCHANGED << last_active_coins, resting, cached_positions, flush_ret >>
    /\ main_pc' = "recon"
    /\ UNCHANGED << engine_vars, eng_lock, venue_fills, ws_vars, mon_vars, dd_vars,
                    drain_fills, asset_configs, regime_mult, todo, config_rx, gov_vars,
                    mult, const_vars, applied, ledger_vars, quote_vars, coin_ret,
                    trade_snap, rounds >>

\* The tick's clone of the trade buffers, then the 120 s global
\* reconciliation and flush check (live mode); due is whether 120 s have
\* passed since the last one.
MainPeriodicReconcile ==
    /\ main_pc = "recon"
    /\ trade_snap' = trade_buffers
    /\ \E due \in BOOLEAN :
        IF ~shadow_mode /\ due
        THEN /\ eng_lock = "free"
             /\ \E po \in PositionOutcomes(cached_positions) :
                 IF po.ok
                 THEN /\ positions' = InventoryReconcile(positions, LivePositions(po.k))
                      /\ mult' = MultAfterReconcile(mult, positions, po.k)
                      /\ \E fo \in FlushOutcomes(resting, CacheAfter(cached_positions, po),
                                                 asset_configs) :
                          /\ resting' = fo.resting
                          /\ cached_positions' = fo.cache
                          /\ flush_ret' = FlushRet(fo)
                 ELSE UNCHANGED << positions, mult, resting, cached_positions, flush_ret >>
        ELSE UNCHANGED << positions, mult, resting, cached_positions, flush_ret >>
    /\ main_pc' = "coins"
    /\ todo' = asset_configs
    /\ UNCHANGED << halted, total_cancels, starting_balance, eng_lock, venue_fills,
                    ws_vars, mon_vars, dd_vars, drain_fills, asset_configs, regime_mult,
                    last_active_coins, config_rx, gov_vars, const_vars,
                    applied, ledger_vars, quote_vars, coin_ret, rounds >>

\* One coin of the per-asset loop. has_book: the coin has an L2 snapshot
\* with mid > 0 and its config is not "halt"; atr: its config's
\* atr_fraction; has_grid: compute_quote_grid returned a non-empty grid.
\* The body takes the engine mutex several times; it is one step, taken
\* when the mutex is free.
MainCoin ==
    /\ main_pc = "coins"
    /\ eng_lock = "free"
    /\ \E c \in todo, has_book \in BOOLEAN, atr \in AtrValues, has_grid \in BOOLEAN :
        /\ todo' = todo \ {c}
        /\ IF ~has_book
           THEN UNCHANGED << gov_vars, positions, resting >>
           ELSE /\ LET g == RegimeUpdate(gov_mult, atr, cancel_fill_ratio(total_cancels),
                                         p95_us, 0) IN
                    /\ gov_regime' = g.regime
                    /\ gov_mult' = g.mult
                /\ IF ~has_grid
                   THEN UNCHANGED << positions, resting >>
                   ELSE IF shadow_mode
                        THEN /\ positions' \in ShadowResults(positions, c)
                             /\ UNCHANGED resting
                        ELSE /\ resting' \in LiveRefreshResults(resting, c)
                             /\ UNCHANGED positions
    /\ UNCHANGED << halted, total_cancels, starting_balance, eng_lock, venue_fills,
                    cached_positions, ws_vars, mon_vars, dd_vars, drain_fills,
                    main_pc, asset_configs, regime_mult, last_active_coins, config_rx,
                    mult, const_vars, aux_vars >>

\* The per-asset loop is over: sleep 100 ms.
MainTickEnd ==
    /\ main_pc = "coins"
    /\ todo = {}
    /\ main_pc' = "sleep"
    /\ coin_ret' = NoCoinRet
    /\ flush_ret' = NoFlushRet
    /\ UNCHANGED << engine_vars, eng_lock, venue_vars, ws_vars, mon_vars, dd_vars,
                    drain_fills, asset_configs, regime_mult, todo, last_active_coins, config_rx,
                    gov_vars, mult, const_vars, applied, ledger_vars, quote_vars,
                    trade_snap, rounds >>

\* ------------------------------------------------------------------ Next

Next ==
    \/ CacheExpire
    \/ TimePasses
    \/ IngestorConnect
    \/ WsMessage
    \/ WsDrop
    \/ StallWatcher
    \/ MonLoad
    \/ MonCancelAllStep
    \/ MonReconcileStep
    \/ MonFinish
    \/ DdCheckStep
    \/ DdUpdate
    \/ MainTickStart
    \/ MainWhitelistFlush
    \/ MainPeriodicReconcile
    \/ MainCoin
    \/ MainTickEnd

Spec == Init /\ [][Next]_vars

SpecPnl == InitPnl /\ [][Next]_vars

\* ----------------------------------------------------- the fill ledger

\* A live session with one whitelisted coin, on an account that holds a
\* position from an earlier session (the first entry of venue_fills, which
\* no userFills message announces): the venue fills resting orders, and the
\* userFills feed, the drain and the reconciles keep the ledger.
InitLedger ==
    /\ InitTasks
    /\ shadow_mode = FALSE
    /\ starting_balance = 100
    /\ daily_pnl_usd = 0
    /\ venue_fills = << [coin |-> "BTC", side |-> "B", sz |-> 1] >>
    /\ ws_sent = 1
    /\ resting = [c \in Coins |-> 0]
    /\ open_orders = NoOpenOrders
    /\ config_rx = {"BTC"}

NextLedger ==
    \/ VenueFill
    \/ CacheExpire
    \/ TimePasses
    \/ IngestorConnect
    \/ WsMessage
    \/ WsUserFill
    \/ WsDrop
    \/ StallWatcher
    \/ MonLoad
    \/ MonCancelAllStep
    \/ MonReconcileStep
    \/ MonFinish
    \/ DrainTake
    \/ DrainApply
    \/ MainTickStart
    \/ MainWhitelistFlush
    \/ MainPeriodicReconcile
    \/ MainCoin
    \/ MainTickEnd

SpecLedger == InitLedger /\ [][NextLedger]_vars

\* ---------------------------------------------------------- cancel_all

\* C1: cancel_all returns a count and never an error. In shadow mode it
\* returns 0, reaches no exchange call and leaves total_cancels and halted
\* alone; in live mode, when the exchange answers Ok(n), total_cancels grows
\* by n, n is returned and halted is left alone; when the exchange answers
\* Err, halted becomes true, 0 is returned and total_cancels is left alone.
C1_CancelAllContract ==
    [][(mon_pc = "edge" /\ mon_pc' = "ret" /\ mon_now) =>
       \A co \in CancelOutcomes(TotalResting(resting)) :
          MonCancelAll(co) =>
            LET ca == cancel_all(halted, total_cancels, co) IN
            /\ ca.ret \in Nat
            /\ shadow_mode =>
                 /\ ca.ret = 0 /\ ~ca.called
                 /\ UNCHANGED << total_cancels, halted, resting >>
            /\ (~shadow_mode /\ co.kind = "ok") =>
                 /\ total_cancels' = total_cancels + co.n
                 /\ ca.ret = co.n
                 /\ halted' = halted
            /\ (~shadow_mode /\ co.kind = "err") =>
                 /\ halted' = TRUE
                 /\ ca.ret = 0
                 /\ total_cancels' = total_cancels
                 /\ resting' = resting]_vars

\* The monitor's cancel_all has just returned in live mode after the
\* exchange failed: the engine is halted and nothing was counted.
C1_Witness ==
    /\ ~shadow_mode
    /\ mon_pc = "ret" /\ mon_ret.op = "cancel_all" /\ ~mon_ret.ok
    /\ halted /\ total_cancels = 0
    /\ TotalResting(resting) > 0

\* ------------------------------------------------- transitions of halted

\* C2: halted changes from false to true only in a step in which the
\* exchange cancel-all failed inside cancel_all (the stall panic's call
\* included), the position fetch failed inside reconcile_after_reconnect, or
\* check_global_drawdown_stop found the drawdown breached; it changes from
\* true to false only in a reconcile_after_reconnect whose position fetch
\* succeeded; a step in which the regime governor changes regime (to "halt"
\* or back) leaves halted as it was.
C2_HaltedTransitions ==
    [][/\ (~halted /\ halted') =>
            \/ mon_pc = "edge" /\ mon_pc' = "ret" /\ ~mon_ret'.ok
            \/ dd_pc = "sleep" /\ dd_pc' = "ret" /\ dd_ret'
       /\ (halted /\ ~halted') =>
            /\ mon_pc = "edge" /\ mon_pc' = "ret"
            /\ mon_ret'.op = "reconcile" /\ mon_ret'.ok
       /\ (gov_regime' # gov_regime) => halted' = halted]_vars

\* reconcile_after_reconnect has just returned with the positions fetched:
\* the engine is not halted, while the regime governor is in "halt".
C2_Witness ==
    /\ mon_pc = "ret" /\ mon_ret.op = "reconcile" /\ mon_ret.ok
    /\ ~halted
    /\ gov_regime = "halt"

\* ------------------------------------------------------ the stall protocol

\* C3: a stall panic halts the engine: from the moment the stall monitor
\* has acted on the raised flag until reconcile_after_reconnect returns,
\* halted is true, in shadow mode and in live mode.
C3_StallPanicHalts ==
    (mon_was /\ mon_pc # "ret") => halted

\* C4: the stall flag rises only in the stall watcher's step, and falls only
\* in the stall monitor's step that follows its reconcile_after_reconnect.
C4_FlagWriters ==
    [][(stall_flag' # stall_flag) =>
          IF stall_flag' THEN StallWatcher
          ELSE mon_pc = "ret" /\ mon_ret.op = "reconcile" /\ MonFinish]_vars

\* C5: no stall episode ends unseen: when the flag falls, the monitor has
\* loaded it raised (it has called cancel_all for this rising edge, or holds
\* the raised value and is about to), so that its next poll sees the falling
\* edge and calls reconcile_after_reconnect.
C5_EpisodeSeenByMonitor ==
    [][(stall_flag /\ ~stall_flag') =>
          (mon_was \/ (mon_pc # "sleep" /\ mon_now))]_vars

\* The stall the monitor acted on has ended with a reconnect and
\* reconcile_after_reconnect has not returned yet.
ReconcilePending == mon_was /\ ~stall_flag /\ mon_pc # "ret"

\* A step of the main loop.
MainStep == main_pc' # main_pc \/ todo' # todo

\* C6: after a reconnect that ended a stall, the main loop places no order
\* for any coin until reconcile_after_reconnect has returned.
C6_NoOrderBeforeReconcile ==
    [][(MainStep /\ \E c \in Coins : resting'[c] > resting[c])
          => ~ReconcilePending]_vars

\* C7: the main loop neither cancels nor places an order while halted is
\* true.
C7_NoOrdersWhileHalted ==
    [][(MainStep /\ resting' # resting) => ~halted]_vars

\* ------------------------------------------- reconcile_after_reconnect

\* C8: when reconcile_after_reconnect returns, halted is false if the
\* position fetch succeeded and true if it failed, whatever halted was
\* before the call; after a successful fetch the ledger holds the signed
\* size of every fetched position.
C8_ReconcileSetsHalted ==
    [][(mon_pc = "edge" /\ mon_pc' = "ret" /\ mon_was) =>
       \A co \in CancelOutcomes(TotalResting(resting)),
          po \in PositionOutcomes(cached_positions),
          bo \in BalanceOutcomes :
          MonReconcile(co, po, bo) =>
            /\ po.ok =>
                 /\ halted' = FALSE
                 /\ \A p \in LivePositions(po.k) : PosOf(positions', p.coin) = Signed(p)
            /\ ~po.ok =>
                 /\ halted' = TRUE
                 /\ positions' = positions]_vars

\* reconcile_after_reconnect has just returned with the positions fetched:
\* the ledger holds the venue's position, which it did not hold at startup,
\* and the engine is not halted.
C8_Witness ==
    /\ mon_pc = "ret" /\ mon_ret.op = "reconcile" /\ mon_ret.ok
    /\ ~halted
    /\ ~shadow_mode /\ cached_positions # NoCache
    /\ LivePositions(cached_positions) # {}
    /\ \A p \in LivePositions(cached_positions) : PosOf(positions, p.coin) = Signed(p)
    /\ total_cancels > 0

\* ------------------------------------------- check_global_drawdown_stop

\* C9: check_global_drawdown_stop returns true exactly when the daily
\* drawdown (the loss over a positive starting balance, 0 otherwise) is at
\* least global_halt_drawdown_pct; when it returns true it has gone through
\* cancel_all and halted is true; when it returns false the engine's state
\* and the venue's orders are as before.
C9_DrawdownStop ==
    [][(dd_pc = "sleep" /\ dd_pc' = "ret") =>
       \A co \in CancelOutcomes(TotalResting(resting)) :
          DdCheck(co) =>
            /\ dd_ret' <=>
                 /\ starting_balance > 0
                 /\ daily_pnl_usd < 0
                 /\ (-daily_pnl_usd) * 100 >= GlobalHaltDrawdownPct * starting_balance
            /\ dd_ret' =>
                 /\ halted' = TRUE
                 /\ total_cancels' = cancel_all(halted, total_cancels, co).total_cancels
                 /\ resting' \in RestingAfter(resting, ~shadow_mode, co)
            /\ ~dd_ret' => UNCHANGED << engine_vars, resting >>]_vars

\* check_global_drawdown_stop has just returned true in live mode with the
\* drawdown exactly at the cap; its cancel_all cancelled an order.
C9_Witness ==
    /\ dd_pc = "ret" /\ dd_ret
    /\ ~shadow_mode
    /\ (-daily_pnl_usd) * 100 = GlobalHaltDrawdownPct * starting_balance
    /\ halted
    /\ total_cancels > 0

\* ------------------------------------------------------- fills and ledger

\* C10: no fill is compounded: the ledger never holds the effect of a fill
\* more than once.
C10_NoFillCompounded ==
    \A f \in FillIds : mult[f] <= 1

\* ------------------------------------------------ the ledger on its own

\* The Position lists reconcile is called with: at most one position per
\* coin, as the clearinghouse state lists them.
LiveLists ==
    UNION { { { [coin |-> c, direction |-> f[c].direction, size |-> f[c].size]
                : c \in S }
              : f \in [S -> [direction : {"LONG", "SHORT"},
                             size : 0 .. MaxLedgerPos]] }
            : S \in SUBSET Coins }

\* inventory.open_orders as a caller may have filled it.
OpenOrderInputs ==
    { NoOpenOrders,
      [c \in {"BTC"} |-> {[price |-> 100, size |-> 1, is_bid |-> TRUE, oid |-> 1]}] }

\* inventory.apply_fill(coin, is_buy, size) called on the ledger.
LedgerApplyFill(coin, is_buy, size) ==
    /\ Abs(PosOf(apply_fill(positions, coin, is_buy, size), coin)) <= MaxLedgerPos
    /\ positions' = apply_fill(positions, coin, is_buy, size)
    /\ inv_call' = [op |-> "apply_fill", live |-> {}, ret |-> {}]
    /\ UNCHANGED << halted, total_cancels, starting_balance, eng_lock, venue_vars,
                    ws_vars, mon_vars, dd_vars, drain_fills, main_vars, config_rx,
                    gov_vars, mult, const_vars, applied, open_orders, loop_vars >>

\* inventory.reconcile(&live) called on the ledger; ret is the list returned.
LedgerReconcile(live) ==
    /\ positions' = InventoryReconcile(positions, live)
    /\ inv_call' = [op |-> "reconcile", live |-> live,
                    ret |-> ReconcileReport(positions, live)]
    /\ UNCHANGED << halted, total_cancels, starting_balance, eng_lock, venue_vars,
                    ws_vars, mon_vars, dd_vars, drain_fills, main_vars, config_rx,
                    gov_vars, mult, const_vars, applied, open_orders, loop_vars >>

LedgerApplyFillStep ==
    \E coin \in Coins, is_buy \in BOOLEAN, size \in 1 .. MaxLedgerPos :
        LedgerApplyFill(coin, is_buy, size)

LedgerReconcileStep ==
    \E live \in LiveLists : LedgerReconcile(live)

\* A fresh ledger, with fills and reconciles in any order.
InitInv ==
    /\ InitTasks
    /\ shadow_mode = FALSE
    /\ starting_balance = 100
    /\ daily_pnl_usd = 0
    /\ venue_fills = << >>
    /\ ws_sent = 0
    /\ resting = [c \in Coins |-> 0]
    /\ open_orders \in OpenOrderInputs
    /\ config_rx = {}

NextInv ==
    \/ LedgerApplyFillStep
    \/ LedgerReconcileStep

SpecInv == InitInv /\ [][NextInv]_vars

\* C11: the ledger reconcile law. After InternalInventory::reconcile(L) the
\* ledger holds, for every position p of L, the signed size of p (positive
\* for LONG, negative otherwise) within 1e-8; the list returned names exactly
\* the coins of L whose internal value differed from the live one by more
\* than 1e-8, each with the internal value before the call, the live value
\* and live - internal.
C11_ReconcileLaw ==
    [][LET live == inv_call'.live IN
        (inv_call'.op = "reconcile" /\ LedgerReconcile(live)) =>
          /\ \A p \in live :
               Abs(PosOf(positions', p.coin)
                   - (IF p.direction = "LONG" THEN p.size ELSE 0 - p.size))
                 <= ReconcileTol
          /\ { r.coin : r \in inv_call'.ret }
               = { p.coin : p \in { q \in live :
                     Abs((IF q.direction = "LONG" THEN q.size ELSE 0 - q.size)
                         - PosOf(positions, q.coin)) > ReconcileTol } }
          /\ \A r \in inv_call'.ret :
               /\ r.internal = PosOf(positions, r.coin)
               /\ \E p \in live :
                    /\ p.coin = r.coin
                    /\ r.live = (IF p.direction = "LONG" THEN p.size ELSE 0 - p.size)
               /\ r.delta = r.live - r.internal
          /\ \A r1, r2 \in inv_call'.ret : r1.coin = r2.coin => r1 = r2]_vars

\* A reconcile has returned: a SHORT position overwrote a long internal
\* one and is reported with its delta, while another listed coin agreed
\* and is not reported.
C11_Witness ==
    /\ inv_call.op = "reconcile"
    /\ \E p \in inv_call.live :
        /\ p.direction = "SHORT" /\ p.size > 0
        /\ PosOf(positions, p.coin) = 0 - p.size
        /\ \E r \in inv_call.ret :
            r.coin = p.coin /\ r.internal > 0 /\ r.delta = (0 - p.size) - r.internal
    /\ \E q \in inv_call.live :
        q.size > 0 /\ \A r \in inv_call.ret : r.coin # q.coin

\* C12: InternalInventory::reconcile leaves untouched every internal position
\* whose coin is not in the live list (a position closed on the venue is not
\* listed, and stays in the ledger), and never modifies open_orders.
C12_ReconcileFrame ==
    [][LET live == inv_call'.live IN
        (inv_call'.op = "reconcile" /\ LedgerReconcile(live)) =>
          /\ \A c \in Coins \ { p.coin : p \in live } :
               /\ (c \in DOMAIN positions') <=> (c \in DOMAIN positions)
               /\ PosOf(positions', c) = PosOf(positions, c)
          /\ open_orders' = open_orders]_vars

\* A reconcile has overwritten one coin while the ledger keeps a non-zero
\* position in a coin the live list does not name; open_orders holds an
\* order.
C12_Witness ==
    /\ inv_call.op = "reconcile"
    /\ inv_call.ret # {}
    /\ \E c \in DOMAIN positions :
        /\ positions[c] # 0
        /\ \A p \in inv_call.live : p.coin # c
    /\ open_orders # NoOpenOrders

\* --------------------------------------------------- the private fills

\* A live session on an empty account with one whitelisted coin: the venue
\* fills the resting orders, the userFills feed queues the fills and the
\* private fill processor drains them.
InitFills ==
    /\ InitTasks
    /\ shadow_mode = FALSE
    /\ starting_balance = 100
    /\ daily_pnl_usd = 0
    /\ venue_fills = << >>
    /\ ws_sent = 0
    /\ resting = [c \in Coins |-> 0]
    /\ open_orders = NoOpenOrders
    /\ config_rx = {"BTC"}

NextFills ==
    \/ VenueFill
    \/ IngestorConnect
    \/ WsUserFill
    \/ WsDrop
    \/ DrainTake
    \/ DrainApply
    \/ MainTickStart
    \/ MainWhitelistFlush
    \/ MainPeriodicReconcile
    \/ MainCoin
    \/ MainTickEnd

SpecFills == InitFills /\ [][NextFills]_vars

\* The net size the fills of the list add to coin c.
RECURSIVE NetOf(_, _)
NetOf(fills, c) ==
    IF fills = << >> THEN 0
    ELSE NetOf(Tail(fills), c)
         + (IF venue_fills[Head(fills)].coin # c THEN 0
            ELSE IF venue_fills[Head(fills)].side = "B"
                 THEN venue_fills[Head(fills)].sz
                 ELSE 0 - venue_fills[Head(fills)].sz)

\* C13: private fills are applied to the ledger in the order received: the
\* userFills feed passes the fills in their order on the venue, and of two
\* fills that are both applied the one received first is applied first;
\* every fill the drain applies adds (buy) or subtracts (sell) its size to
\* its own coin's position, an absent entry counting as 0 and being created,
\* and no other coin's entry changes.
C13_FillsAppliedInOrder ==
    [][(applied' # applied) =>
          /\ \A i, j \in DOMAIN applied' : i < j => applied'[i] < applied'[j]
          /\ \A c \in Coins :
               PosOf(positions', c) = PosOf(positions, c) + NetOf(drain_fills, c)
          /\ DOMAIN positions'
               = DOMAIN positions
                 \cup { venue_fills[drain_fills[i]].coin : i \in DOMAIN drain_fills }]_vars

\* A buy and then a sell have been received and applied in that order: the
\* first created the coin's entry, which is back at 0, and the other coin
\* has no entry.
C13_Witness ==
    /\ Len(applied) = 2
    /\ applied[1] = 1 /\ applied[2] = 2
    /\ venue_fills[1].side = "B" /\ venue_fills[2].side = "A"
    /\ drain_fills = << >> /\ user_fills = << >>
    /\ DOMAIN positions = {"BTC"}
    /\ positions["BTC"] = 0
    /\ mult[1] = 1 /\ mult[2] = 1

\* ------------------------------------------- the per-asset loop in detail

\* The wall clock advances by 10 s.
ClockTick ==
    /\ now < MaxTime
    /\ now' = now + 1
    /\ UNCHANGED << engine_vars, eng_lock, venue_vars, ws_vars, mon_vars, dd_vars,
                    drain_fills, main_vars, config_rx, gov_vars, mult, const_vars,
                    applied, ledger_vars, last_trade_ts, margin_call, shadow_vars,
                    coin_ret, flush_ret, trade_snap, rounds >>

\* mid * (base_spread_bps / 10_000)
HalfSpread(mid) == (mid * BaseSpreadTenthBps) \div (10 * PxUnit)

\* sticky_threshold = mid * (base_spread_bps / 10_000) * 0.5
StickyThreshold(mid) == (mid * BaseSpreadTenthBps) \div (20 * PxUnit)

GridQuote(side, price) ==
    [price |-> price, side |-> side, layer |-> 1, size_usd |-> BaseSzUsd]

\* The grids compute_quote_grid returns with one layer (MM_MAX_LAYERS unset)
\* at the calm multiplier: each side is present unless the order-flow
\* imbalance blocks it.
QuoteGrids(mid) ==
    [bids : {<< >>, << GridQuote("bid", mid - HalfSpread(mid)) >>},
     asks : {<< >>, << GridQuote("ask", mid + HalfSpread(mid)) >>}]

\* The resting orders of get_open_orders answers, as (side, limitPx) after
\* the as_str / parse of the sticky check: a bid one unit below the bid
\* target, a bid the sticky threshold below it, an ask at the ask target
\* and an ask at the bid target.
OpenOrderKinds(mid) ==
    { [side |-> "B", limitPx |-> mid - HalfSpread(mid) - 1],
      [side |-> "B", limitPx |-> mid - HalfSpread(mid) - StickyThreshold(mid)],
      [side |-> "A", limitPx |-> mid + HalfSpread(mid)],
      [side |-> "A", limitPx |-> mid - HalfSpread(mid)] }

\* Outcomes of ExchangeClient::get_open_orders(coin): Err, or Ok(orders).
OpenOrdersOutcomes(mid) ==
    {[ok |-> FALSE, orders |-> << >>]}
    \cup [ok : {TRUE},
          orders : UNION { [1 .. n -> OpenOrderKinds(mid)] : n \in 0 .. MaxOrders }]

\* grid.bids.iter().map(size_usd).sum() + grid.asks.iter().map(size_usd).sum()
GridNotional(grid) ==
    Len(grid.bids) * BaseSzUsd + Len(grid.asks) * BaseSzUsd

has_sufficient_margin_HalfOfNotional(total_notional_usd, bo) ==
    IF shadow_mode THEN [called |-> FALSE, ret |-> TRUE]
    ELSE IF bo.ok
         THEN [called |-> TRUE, ret |-> ~(bo.bal * 2 < total_notional_usd)]
         ELSE [called |-> TRUE, ret |-> FALSE]

\* MmExecutionEngine::has_sufficient_margin with get_balance answering bo:
\* false when balance < total_notional_usd / 10.0, and on an error.
has_sufficient_margin(total_notional_usd, bo) ==
    IF shadow_mode THEN [called |-> FALSE, ret |-> TRUE]
    ELSE IF bo.ok
         THEN [called |-> TRUE, ret |-> ~(bo.bal * 10 < total_notional_usd)]
         ELSE [called |-> TRUE, ret |-> FALSE]

RateLimited_TenSeconds(now_ms, last_refresh) == now_ms - last_refresh < 1

\* now_ms - last_refresh < 30_000
RateLimited(now_ms, last_refresh) == now_ms - last_refresh < RefreshInterval

\* The quotes of the grid the inventory guard lets through: over
\* max_inv_usd, a long ledger suppresses the bids and a short one the asks.
AllQuotes(grid, inv_coins, mid) ==
    LET over == Abs(inv_coins * mid) > MaxInvUsd * PxUnit
        Kept(q) == /\ ~(q.side = "bid" /\ over /\ inv_coins > 0)
                   /\ ~(q.side = "ask" /\ over /\ inv_coins < 0)
    IN SelectSeq(grid.bids \o grid.asks, Kept)

StickyMatch_ExactPrice(q, orders, mid) ==
    \E i \in DOMAIN orders :
        /\ orders[i].side = (IF q.side = "bid" THEN "B" ELSE "A")
        /\ orders[i].limitPx = q.price

\* open_orders.iter().find(..) of the sticky check found an order for q.
StickyMatch(q, orders, mid) ==
    \E i \in DOMAIN orders :
        /\ orders[i].side = (IF q.side = "bid" THEN "B" ELSE "A")
        /\ Abs(orders[i].limitPx - q.price) < StickyThreshold(mid)

\* The live branch for coin c with a non-empty grid, as the set of its
\* outcomes: ret is what the body did and resting what the venue holds for
\* the coin afterwards. get_open_orders answers oo; cancel_coin_orders reads
\* the list just cached, or finds n2 orders when oo was an error; gone of
\* its cancel requests remove a resting order; get_balance answers bo; k of
\* the open_order calls are accepted. cancels and placed are the cancel
\* requests and the open_order calls sent, and confirmed is the Ok(cancelled)
\* of cancel_coin_orders, which the branch discards.
LiveQuote(c, mid, grid) ==
    LET inv_coins == PosOf(positions, c)
        all_quotes == AllQuotes(grid, inv_coins, mid)
        base == [NoCoinRet EXCEPT !.coin = c, !.inv = inv_coins]
    IN IF RateLimited(now, last_trade_ts[c])
       THEN {[resting |-> resting[c], ret |-> [base EXCEPT !.gate = "rate"]]}
       ELSE UNION {
           LET orders == IF oo.ok THEN oo.orders ELSE << >>
               all_sticky ==
                   /\ all_quotes # << >>
                   /\ orders # << >>
                   /\ \A i \in DOMAIN all_quotes : StickyMatch(all_quotes[i], orders, mid)
               seen == [base EXCEPT !.targets = all_quotes, !.seen_ok = oo.ok,
                                    !.seen = orders]
           IN IF all_sticky /\ Len(orders) = Len(all_quotes)
              THEN {[resting |-> resting[c], ret |-> [seen EXCEPT !.gate = "sticky"]]}
              ELSE UNION {
                  LET cancelled == [seen EXCEPT !.cancels = n,
                                                !.notional = GridNotional(grid),
                                                !.bal = bo]
                  IN IF ~has_sufficient_margin(GridNotional(grid), bo).ret
                     THEN { [resting |-> resting[c] - gone,
                             ret |-> [cancelled EXCEPT !.gate = "margin",
                                                       !.confirmed = gone]] :
                             gone \in 0 .. Min(n, resting[c]) }
                     ELSE { [resting |-> resting[c] - gone + k,
                             ret |-> [cancelled EXCEPT
                                 !.gate = "placed",
                                 !.confirmed = gone,
                                 !.placed = [i \in DOMAIN all_quotes |->
                                     OpenCall(c, IF all_quotes[i].side = "bid"
                                                 THEN "LONG" ELSE "SHORT",
                                              (all_quotes[i].size_usd * PxUnit) \div mid,
                                              all_quotes[i].price, TRUE)]]] :
                             gone \in 0 .. Min(n, resting[c]), k \in 0 .. Len(all_quotes) }
                  : n \in (IF oo.ok THEN {Len(orders)} ELSE 0 .. MaxOrders),
                    bo \in BalanceOutcomes }
           : oo \in OpenOrdersOutcomes(mid) }

\* The loop body for coin c when the coin has no L2 snapshot, its config's
\* regime is "halt" or its mid is not positive: continue.
CoinSkip(c) ==
    /\ main_pc = "coins"
    /\ c \in todo
    /\ todo' = todo \ {c}
    /\ coin_ret' = [NoCoinRet EXCEPT !.coin = c, !.gate = "nobook"]
    /\ UNCHANGED << engine_vars, eng_lock, venue_vars, ws_vars, mon_vars, dd_vars,
                    drain_fills, main_pc, asset_configs, regime_mult, last_active_coins, config_rx,
                    gov_vars, mult, const_vars, applied, ledger_vars, quote_vars,
                    flush_ret, trade_snap, rounds >>

\* The loop body for coin c in live mode: the regime update with the
\* config's atr, the grid, and the live branch.
LiveCoin(c, atr, grid) ==
    /\ main_pc = "coins"
    /\ eng_lock = "free"
    /\ ~shadow_mode
    /\ c \in todo
    /\ todo' = todo \ {c}
    /\ LET g == RegimeUpdate(gov_mult, atr, cancel_fill_ratio(total_cancels), p95_us, 0) IN
        /\ gov_regime' = g.regime
        /\ gov_mult' = g.mult
    /\ \E out \in (IF grid.bids \o grid.asks = << >>
                   THEN {[resting |-> resting[c],
                          ret |-> [NoCoinRet EXCEPT !.coin = c, !.gate = "nogrid"]]}
                   ELSE LiveQuote(c, MidPx, grid)) :
        /\ out.resting <= MaxOrders
        /\ coin_ret' = out.ret
        /\ last_trade_ts' = IF out.ret.gate \in {"nogrid", "rate"} THEN last_trade_ts
                            ELSE [last_trade_ts EXCEPT ![c] = now]
        /\ resting' = [resting EXCEPT ![c] = out.resting]
        /\ rounds' = IF out.ret.cancels > 0 \/ out.ret.placed # << >>
                     THEN [rounds EXCEPT ![c] = Append(@, now)] ELSE rounds
    /\ UNCHANGED << halted, total_cancels, starting_balance, positions, eng_lock,
                    venue_fills, cached_positions, ws_vars, mon_vars, dd_vars,
                    drain_fills, main_pc, asset_configs, regime_mult, last_active_coins, config_rx,
                    mult, const_vars, applied, ledger_vars, now, margin_call,
                    shadow_vars, flush_ret, trade_snap >>

CoinSkipStep == \E c \in Coins : CoinSkip(c)

LiveCoinStep ==
    \E c \in Coins, atr \in AtrValues, grid \in QuoteGrids(MidPx) : LiveCoin(c, atr, grid)

\* A live session with one whitelisted coin, on an account that is flat or
\* holds a long position over max_inv_usd from an earlier session.
InitLive ==
    /\ InitTasks
    /\ shadow_mode = FALSE
    /\ starting_balance = 100
    /\ daily_pnl_usd = 0
    /\ venue_fills \in {<< >>, << [coin |-> "BTC", side |-> "B", sz |-> 1],
                                [coin |-> "BTC", side |-> "B", sz |-> 1] >>}
    /\ ws_sent = Len(venue_fills)
    /\ resting = [c \in Coins |-> 0]
    /\ open_orders = NoOpenOrders
    /\ config_rx = {"BTC"}

NextLive ==
    \/ ClockTick
    \/ CacheExpire
    \/ MainTickStart
    \/ MainWhitelistFlush
    \/ MainPeriodicReconcile
    \/ CoinSkipStep
    \/ LiveCoinStep
    \/ MainTickEnd

SpecLive == InitLive /\ [][NextLive]_vars

\* ------------------------------------------------- shadow fill simulator

\* The taker trades of the feed: side "B" is a taker buy and "A" a taker
\* sell, px is the parsed price, and the volume fed is px * sz.
TradeInputs ==
    [side : {"B", "A"}, sz : {1},
     px : {MidPx - HalfSpread(MidPx), MidPx + HalfSpread(MidPx)}, time : {1, 2}]

\* The coins that trade in the session.
TradedCoins == {"BTC"}

\* MarketDataBuffer::add_trade
add_trade(buf, trade) ==
    IF Len(buf) >= TradeBufferCap THEN Append(Tail(buf), trade) ELSE Append(buf, trade)

\* A trades message with the trade t of coin c; id numbers the trades.
WsTrade(c, t) ==
    /\ ws_up
    /\ Len(fed) < MaxTrades
    /\ trade_buffers' = [trade_buffers EXCEPT ![c] =
            add_trade(@, [side |-> t.side, sz |-> t.sz, px |-> t.px,
                          time |-> t.time, id |-> Len(fed) + 1])]
    /\ fed' = Append(fed, 0)
    /\ ofi_fed' = Append(ofi_fed, 0)
    /\ ws_silent' = FALSE
    /\ UNCHANGED << engine_vars, eng_lock, venue_vars, user_fills, ws_up, ws_sent,
                    stall_flag, mon_vars, dd_vars, drain_fills, main_vars, config_rx,
                    gov_vars, mult, const_vars, applied, ledger_vars, now,
                    last_trade_ts, margin_call, entries, coin_ret, flush_ret, trade_snap, rounds >>

WsTradeStep == \E c \in TradedCoins, t \in TradeInputs : WsTrade(c, t)

\* format!("{}_bid_L{}", coin, layer) and format!("{}_ask_L{}", coin, layer)
EstKey(c, side, layer) == << c, side, layer >>

\* QueuePositionEstimator::register_order
register_order(ents, key, price, is_bid, size_usd) ==
    [k \in DOMAIN ents \cup {key} |->
        IF k = key
        THEN [price |-> price, is_bid |-> is_bid, size_usd |-> size_usd,
              volume_traded_through |-> 0]
        ELSE ents[k]]

\* QueuePositionEstimator::on_trade
on_trade(ents, key, trade_price, is_taker_buy, volume_usd) ==
    IF key \notin DOMAIN ents THEN ents
    ELSE LET through == IF ents[key].is_bid
                        THEN ~is_taker_buy /\ trade_price <= ents[key].price
                        ELSE is_taker_buy /\ trade_price >= ents[key].price
         IN IF through
            THEN [ents EXCEPT ![key].volume_traded_through = @ + volume_usd]
            ELSE ents

\* QueuePositionEstimator::is_likely_filled(key, 0.70):
\* min(1, volume_traded_through / (2 * size_usd)) >= 0.70, 0 without entry.
is_likely_filled(ents, key) ==
    /\ key \in DOMAIN ents
    /\ 100 * ents[key].volume_traded_through
         >= FillThresholdPct * 2 * ents[key].size_usd * PxUnit

\* QueuePositionEstimator::remove
remove(ents, key) == [k \in DOMAIN ents \ {key} |-> ents[k]]

\* Idempotent registration of the grid's quotes, bids first.
RECURSIVE RegisterQuotes(_, _, _)
RegisterQuotes(ents, c, quotes) ==
    IF quotes = << >> THEN ents
    ELSE LET q == Head(quotes)
             key == EstKey(c, q.side, q.layer)
         IN RegisterQuotes(IF key \in DOMAIN ents THEN ents
                           ELSE register_order(ents, key, q.price, q.side = "bid", q.size_usd),
                           c, Tail(quotes))

\* for layer in 1u8..=3 { on_trade(bid key ..); on_trade(ask key ..) }
RECURSIVE FeedTrade(_, _, _, _)
FeedTrade(ents, c, t, layer) ==
    IF layer > FeedLayers THEN ents
    ELSE FeedTrade(on_trade(on_trade(ents, EstKey(c, "bid", layer), t.px,
                                     t.side = "B", t.px * t.sz),
                            EstKey(c, "ask", layer), t.px, t.side = "B", t.px * t.sz),
                   c, t, layer + 1)

\* for t in &new_trades { .. }
RECURSIVE FeedTrades(_, _, _)
FeedTrades(ents, c, trades) ==
    IF trades = << >> THEN ents
    ELSE FeedTrades(FeedTrade(ents, c, Head(trades), 1), c, Tail(trades))

NewTrades_AtOrAfter(trades, prev_ts) ==
    LET New(t) == t.time >= prev_ts IN SelectSeq(trades, New)

\* trades.iter().filter(|t| t.time > prev_ts)
NewTrades(trades, prev_ts) ==
    LET New(t) == t.time > prev_ts IN SelectSeq(trades, New)

\* new_trades.iter().map(|t| t.time).max().unwrap_or(prev_ts)
MaxTs(trades, prev_ts) ==
    IF trades = << >> THEN prev_ts
    ELSE CHOOSE m \in { trades[i].time : i \in DOMAIN trades } :
            \A i \in DOMAIN trades : trades[i].time <= m

\* ShadowFill::new(coin, q, ts): the fill recorded into the shadow session,
\* with maker_rebate_usd = q.size_usd * 0.0001 in units of 1e-4 USD.
ShadowFillNew(c, q) ==
    [coin |-> c, price |-> q.price, side |-> q.side, layer |-> q.layer,
     size_usd |-> q.size_usd,
     maker_rebate_usd |-> (q.size_usd * MakerRebateBps * PxUnit) \div (100 * 100)]

\* The fill checks over the grid's quotes, bids first: a quote whose key is
\* likely filled is recorded, its key removed, and size_usd / mid coins
\* applied to the ledger. st holds entries, positions and the fills.
RECURSIVE CheckFills(_, _, _, _)
CheckFills(st, c, mid, quotes) ==
    IF quotes = << >> THEN st
    ELSE LET q == Head(quotes)
             key == EstKey(c, q.side, q.layer)
         IN CheckFills(IF is_likely_filled(st.entries, key)
                       THEN [positions |-> apply_fill(st.positions, c, q.side = "bid",
                                                      (q.size_usd * PxUnit) \div mid),
                             entries |-> remove(st.entries, key),
                             filled |-> Append(st.filled, ShadowFillNew(c, q))]
                       ELSE st,
                       c, mid, Tail(quotes))

\* The shadow branch for coin c with a non-empty grid: registration, the
\* watermark-guarded feed of the tick's trades, and the fill checks.
ShadowQuote(c, mid, grid) ==
    LET quotes == grid.bids \o grid.asks
        registered == RegisterQuotes(entries, c, quotes)
        prev_ts == last_trade_ts[c]
        new_trades == NewTrades(trade_snap[c], prev_ts)
        fed_ents == FeedTrades(registered, c, new_trades)
        st == CheckFills([positions |-> positions, entries |-> fed_ents, filled |-> << >>],
                         c, mid, quotes)
    IN [positions |-> st.positions,
        entries |-> st.entries,
        fed |-> [i \in DOMAIN fed |->
                    fed[i] + Cardinality({ j \in DOMAIN new_trades : new_trades[j].id = i })],
        ret |-> [NoCoinRet EXCEPT
                    !.coin = c, !.gate = "shadow", !.inv = PosOf(positions, c),
                    !.targets = quotes,
                    !.registered = DOMAIN registered \ DOMAIN entries,
                    !.fed = new_trades,
                    !.filled = st.filled],
        last_ts |-> MaxTs(new_trades, prev_ts)]

\* if let Some(t) = trades.back() { record_taker_trade(..) }: the loop body
\* records the last trade of the tick's snapshot of the coin's buffer.
OfiFeed(counts, trades) ==
    IF trades = << >> THEN counts
    ELSE [counts EXCEPT ![trades[Len(trades)].id] = Min(@ + 1, MaxOfiFed)]

\* The loop body for coin c in shadow mode: the OFI feed, the regime update
\* with the config's atr, the grid, and the shadow branch.
ShadowCoin(c, atr, grid) ==
    /\ main_pc = "coins"
    /\ eng_lock = "free"
    /\ shadow_mode
    /\ c \in todo
    /\ todo' = todo \ {c}
    /\ ofi_fed' = OfiFeed(ofi_fed, trade_snap[c])
    /\ LET g == RegimeUpdate(gov_mult, atr, cancel_fill_ratio(total_cancels), p95_us, 0) IN
        /\ gov_regime' = g.regime
        /\ gov_mult' = g.mult
    /\ IF grid.bids \o grid.asks = << >>
       THEN /\ coin_ret' = [NoCoinRet EXCEPT !.coin = c, !.gate = "nogrid"]
            /\ UNCHANGED << entries, positions, last_trade_ts, fed >>
       ELSE LET s == ShadowQuote(c, MidPx, grid) IN
            /\ Abs(PosOf(s.positions, c)) <= MaxInvCoins
            /\ coin_ret' = s.ret
            /\ entries' = s.entries
            /\ positions' = s.positions
            /\ last_trade_ts' = [last_trade_ts EXCEPT ![c] = s.last_ts]
            /\ fed' = s.fed
    /\ UNCHANGED << halted, total_cancels, starting_balance, eng_lock, venue_vars,
                    ws_vars, mon_vars, dd_vars, drain_fills, main_pc, asset_configs, regime_mult,
                    last_active_coins, config_rx, mult, const_vars, applied,
                    ledger_vars, now, margin_call, trade_buffers, flush_ret, trade_snap, rounds >>

ShadowCoinStep ==
    \E c \in Coins, atr \in AtrValues, grid \in QuoteGrids(MidPx) : ShadowCoin(c, atr, grid)

\* A shadow session with one whitelisted coin whose trades the feed delivers.
InitShadow ==
    /\ InitTasks
    /\ shadow_mode = TRUE
    /\ starting_balance = SimBalance
    /\ daily_pnl_usd = 0
    /\ venue_fills = << >>
    /\ ws_sent = 0
    /\ resting = [c \in Coins |-> 0]
    /\ open_orders = NoOpenOrders
    /\ config_rx = {"BTC"}

NextShadow ==
    \/ IngestorConnect
    \/ WsTradeStep
    \/ MainTickStart
    \/ MainWhitelistFlush
    \/ MainPeriodicReconcile
    \/ CoinSkipStep
    \/ ShadowCoinStep
    \/ MainTickEnd

SpecShadow == InitShadow /\ [][NextShadow]_vars

\* ------------------------------------------------------- margin check

\* has_sufficient_margin(total) called on the engine with get_balance
\* answering bo; margin_call records the call and what it returned.
MarginCheck(total, bo) ==
    /\ eng_lock = "free"
    /\ margin_call' = [op |-> "has_sufficient_margin", bal |-> bo,
                       called |-> has_sufficient_margin(total, bo).called,
                       ret |-> has_sufficient_margin(total, bo).ret,
                       total |-> total]
    /\ UNCHANGED << engine_vars, eng_lock, venue_vars, ws_vars, mon_vars, dd_vars,
                    drain_fills, main_vars, config_rx, gov_vars, mult, const_vars,
                    applied, ledger_vars, now, last_trade_ts, shadow_vars, coin_ret, flush_ret,
                    trade_snap, rounds >>

\* Notionals in USD: no grid, one and two layer-1 quotes, ten times the
\* larger live balance, and above it.
NotionalInputs == {0, BaseSzUsd, 2 * BaseSzUsd, 1000, 1010}

MarginCheckStep ==
    \E total \in NotionalInputs, bo \in BalanceOutcomes : MarginCheck(total, bo)

\* A session in either mode with one whitelisted coin, and the margin check
\* called on its engine.
InitMargin ==
    /\ InitTasks
    /\ shadow_mode \in BOOLEAN
    /\ starting_balance = (IF shadow_mode THEN SimBalance ELSE 100)
    /\ daily_pnl_usd = 0
    /\ venue_fills = << >>
    /\ ws_sent = 0
    /\ resting = [c \in Coins |-> 0]
    /\ open_orders = NoOpenOrders
    /\ config_rx = {"BTC"}

NextMargin ==
    \/ MarginCheckStep
    \/ MainTickStart
    \/ MainWhitelistFlush
    \/ MainPeriodicReconcile
    \/ CoinSkipStep
    \/ LiveCoinStep
    \/ ShadowCoinStep
    \/ MainTickEnd

SpecMargin == InitMargin /\ [][NextMargin]_vars

\* C19: has_sufficient_margin(total_notional_usd) returns true in shadow
\* mode without calling the exchange; in live mode it fetches the balance
\* and returns true exactly when the fetch succeeds and balance >=
\* total_notional_usd / 10, hence false whenever the fetch fails; and when
\* the balance answer of a live tick does not cover a tenth of the grid's
\* notional, the tick places no order for the coin.
C19_MarginCheck ==
    [][/\ (margin_call' # margin_call)
          => /\ shadow_mode => margin_call'.ret /\ ~margin_call'.called
             /\ ~shadow_mode
                => /\ margin_call'.called
                   /\ margin_call'.ret <=> (/\ margin_call'.bal.ok
                                            /\ margin_call'.bal.bal * 10 >= margin_call'.total)
       /\ (~shadow_mode /\ main_pc = "coins" /\ todo' # todo
             /\ coin_ret'.gate \in {"margin", "placed"})
          => LET r == coin_ret'
                 covered == r.bal.ok /\ r.bal.bal * 10 >= r.notional
             IN /\ (r.gate = "margin") <=> ~covered
                /\ ~covered => /\ r.placed = << >>
                               /\ resting'[r.coin] <= resting[r.coin]]_vars

\* The margin check returned true for a notional of exactly ten times the
\* balance, and a live tick whose balance fetch failed skipped the grid.
C19_Witness ==
    /\ ~shadow_mode
    /\ margin_call.op = "has_sufficient_margin"
    /\ margin_call.bal.ok
    /\ margin_call.bal.bal * 10 = margin_call.total
    /\ margin_call.total > 0
    /\ margin_call.ret
    /\ coin_ret.coin = "BTC"
    /\ coin_ret.gate = "margin"
    /\ ~coin_ret.bal.ok
    /\ coin_ret.targets # << >>
    /\ coin_ret.placed = << >>

\* ------------------------------------------------------ refresh cadence

C17_StickySkip ==
    [][LET r == coin_ret'
           Near(q, o) ==
               /\ o.side = (IF q.side = "bid" THEN "B" ELSE "A")
               /\ Abs(o.limitPx - q.price) * 20 * PxUnit < BaseSpreadTenthBps * MidPx
       IN (/\ ~shadow_mode
           /\ main_pc = "coins"
           /\ todo' # todo
           /\ r.gate \notin {"nobook", "nogrid", "rate"}
           /\ r.seen_ok
           /\ Len(r.seen) = Len(r.targets)
           /\ \A i \in DOMAIN r.targets : \E j \in DOMAIN r.seen : Near(r.targets[i], r.seen[j]))
          => /\ r.cancels = 0
             /\ r.placed = << >>
             /\ resting' = resting
             /\ total_cancels' = total_cancels
             /\ cancel_fill_ratio(total_cancels') = cancel_fill_ratio(total_cancels)]_vars

\* The tick found the coin's one resting bid one price unit from the one
\* target bid and skipped the reset.
C17_Witness ==
    /\ ~shadow_mode
    /\ coin_ret.coin = "BTC"
    /\ coin_ret.gate = "sticky"
    /\ Len(coin_ret.targets) = 1
    /\ Len(coin_ret.seen) = 1
    /\ coin_ret.targets[1].side = "bid"
    /\ coin_ret.seen[1].limitPx = coin_ret.targets[1].price - 1
    /\ resting["BTC"] = 1

\* ------------------------------------------------------ shadow watermark

\* The volume of the trades that cross the resting price of the entry e: a
\* taker sell at or below a bid, a taker buy at or above an ask.
RECURSIVE CrossedVolume(_, _)
CrossedVolume(trades, e) ==
    IF trades = << >> THEN 0
    ELSE (IF \/ e.is_bid /\ Head(trades).side = "A" /\ Head(trades).px <= e.price
             \/ ~e.is_bid /\ Head(trades).side = "B" /\ Head(trades).px >= e.price
          THEN Head(trades).px * Head(trades).sz ELSE 0)
         + CrossedVolume(Tail(trades), e)

\* C20: in shadow mode every taker trade is fed to the queue estimator at
\* most once; a tick feeds a coin only trades whose timestamp is strictly
\* greater than the coin's watermark, and then the watermark is the greatest
\* fed timestamp (it stays when nothing is fed); the volume_traded_through
\* of a key registered for the coin grows by price * size of exactly the fed
\* trades that cross its resting price, and no other coin's key changes.
C20_ShadowWatermark ==
    [][/\ \A i \in DOMAIN fed' : fed'[i] <= 1
       /\ (shadow_mode /\ main_pc = "coins" /\ todo' # todo /\ coin_ret'.gate = "shadow")
          => LET r == coin_ret'
                 c == coin_ret'.coin
             IN /\ \A i \in DOMAIN r.fed : r.fed[i].time > last_trade_ts[c]
                /\ r.fed # << >>
                   => /\ \E i \in DOMAIN r.fed : last_trade_ts'[c] = r.fed[i].time
                      /\ \A i \in DOMAIN r.fed : r.fed[i].time <= last_trade_ts'[c]
                /\ r.fed = << >> => last_trade_ts'[c] = last_trade_ts[c]
                /\ \A k \in DOMAIN entries' :
                      IF k[1] = c
                      THEN entries'[k].volume_traded_through
                             = (IF k \in DOMAIN entries
                                THEN entries[k].volume_traded_through ELSE 0)
                               + CrossedVolume(r.fed, entries'[k])
                      ELSE k \in DOMAIN entries /\ entries'[k] = entries[k]]_vars

\* A taker sell at the bid price was fed once and is in the bid key's
\* volume and not in the ask key's; a later trade with a timestamp at the
\* watermark was not fed.
C20_Witness ==
    /\ shadow_mode
    /\ coin_ret.coin = "BTC"
    /\ coin_ret.gate = "shadow"
    /\ coin_ret.fed = << >>
    /\ fed = << 1, 0 >>
    /\ Len(trade_snap["BTC"]) = 2
    /\ trade_snap["BTC"][1].side = "A"
    /\ last_trade_ts["BTC"] = trade_snap["BTC"][1].time
    /\ trade_snap["BTC"][2].time = last_trade_ts["BTC"]
    /\ EstKey("BTC", "bid", 1) \in DOMAIN entries
    /\ EstKey("BTC", "ask", 1) \in DOMAIN entries
    /\ entries[EstKey("BTC", "bid", 1)].volume_traded_through
         = trade_snap["BTC"][1].px * trade_snap["BTC"][1].sz
    /\ entries[EstKey("BTC", "ask", 1)].volume_traded_through = 0

\* ------------------------------------------------------ inventory guard

\* C18: in every tick, in live and in shadow mode, when |inv_usd| >
\* max_inv_usd for a coin, no bid is placed, registered or simulated as
\* filled for it while the ledger is long, and no ask while it is short, and
\* the tick does not move the ledger position further from zero.
C18_InventoryGuard ==
    [][(main_pc = "coins" /\ todo' # todo /\ coin_ret'.gate \in {"placed", "shadow"})
       => LET r == coin_ret'
              inv == PosOf(positions, r.coin)
              Grown(side, direction) ==
                  \/ \E i \in DOMAIN r.placed : r.placed[i].direction = direction
                  \/ \E k \in r.registered : k[2] = side
                  \/ \E i \in DOMAIN r.filled : r.filled[i].side = side
          IN Abs(inv) * MidPx > MaxInvUsd * PxUnit
             => /\ inv > 0 => ~Grown("bid", "LONG") /\ PosOf(positions', r.coin) <= inv
                /\ inv < 0 => ~Grown("ask", "SHORT") /\ PosOf(positions', r.coin) >= inv]_vars

\* ------------------------------------------------- whitelist contraction

\* A live session that inherits a position on ETH, long or short, with both
\* coins whitelisted; the screener then changes the list.
InitFlush ==
    /\ InitTasks
    /\ shadow_mode = FALSE
    /\ starting_balance = 100
    /\ daily_pnl_usd = 0
    /\ venue_fills \in {<< [coin |-> "ETH", side |-> "B", sz |-> 1] >>,
                        << [coin |-> "ETH", side |-> "A", sz |-> 1] >>,
                        << [coin |-> "ETH", side |-> "B", sz |-> 1],
                           [coin |-> "BTC", side |-> "A", sz |-> 1] >>}
    /\ ws_sent = Len(venue_fills)
    /\ resting = [c \in Coins |-> 0]
    /\ open_orders = NoOpenOrders
    /\ config_rx = Coins

NextFlush ==
    \/ ScreenerPublish
    \/ CacheExpire
    \/ MainTickStart
    \/ MainWhitelistFlush
    \/ MainPeriodicReconcile
    \/ MainCoin
    \/ MainTickEnd

SpecFlush == InitFlush /\ [][NextFlush]_vars

InitQuote ==
    /\ InitTasks
    /\ shadow_mode \in BOOLEAN
    /\ starting_balance = (IF shadow_mode THEN SimBalance ELSE 100)
    /\ daily_pnl_usd = 0
    /\ venue_fills = << >>
    /\ ws_sent = 0
    /\ resting = [c \in Coins |-> 0]
    /\ open_orders = NoOpenOrders
    /\ config_rx = {}

NextQuote ==
    \/ ScreenerPublish
    \/ MainTickStart
    \/ MainWhitelistFlush
    \/ MainPeriodicReconcile
    \/ CoinSkipStep
    \/ LiveCoinStep
    \/ ShadowCoinStep
    \/ MainTickEnd

SpecQuote == InitQuote /\ [][NextQuote]_vars

\* C14: a tick works on the asset-config list that was the latest received
\* when the tick started, and keeps it to its end; every coin for which the
\* per-asset loop places an order (live) or registers a simulated order
\* (shadow) is in that list, so nothing is placed or registered while the
\* list is empty, as it is before the first screener message.
C14_QuotesOnlyConfigured ==
    [][/\ (main_pc = "sleep" /\ main_pc' # "sleep") => asset_configs' = config_rx
       /\ main_pc # "sleep" => asset_configs' = asset_configs
       /\ (main_pc = "coins" /\ main_pc' = "coins")
          => \A c \in Coins :
               (\/ resting'[c] > resting[c]
                \/ \E k \in DOMAIN entries' :
                     k[1] = c /\ (k \notin DOMAIN entries \/ entries'[k] # entries[k]))
               => c \in asset_configs
       /\ (coin_ret'.placed # << >> \/ coin_ret'.registered # {})
          => coin_ret'.coin \in asset_configs']_vars

\* The screener's first list was {ETH}: the live tick that read it has
\* placed a quote for ETH and none for BTC.
C14_Witness ==
    /\ ~shadow_mode
    /\ main_pc = "coins"
    /\ asset_configs = {"ETH"}
    /\ coin_ret.coin = "ETH"
    /\ coin_ret.placed # << >>
    /\ resting["ETH"] > 0
    /\ resting["BTC"] = 0

\* ---------------------------------------------------------- shadow fills

\* The net size the fills add to the ledger: + size_usd / mid coins for a
\* bid fill, - size_usd / mid for an ask fill.
RECURSIVE FilledCoins(_, _)
FilledCoins(fills, mid) ==
    IF fills = << >> THEN 0
    ELSE (IF Head(fills).side = "bid" THEN 1 ELSE -1)
           * ((Head(fills).size_usd * PxUnit) \div mid)
         + FilledCoins(Tail(fills), mid)

\* C21: in a shadow tick of a coin, every key registered for the coin whose
\* fill probability min(1, volume_traded_through / (2 * size_usd)) is at
\* least 0.70 once the tick's trades are fed gets exactly one shadow fill
\* recorded, with rebate size_usd * 0.0001, and is removed; the ledger moves
\* by exactly the recorded fills, a buy for a bid key and a sell for an ask
\* key; and no fill is recorded for a key below 0.70 or without registration.
C21_ShadowFill ==
    [][(shadow_mode /\ main_pc = "coins" /\ todo' # todo /\ coin_ret'.gate = "shadow")
       => LET r == coin_ret'
              c == coin_ret'.coin
              Quoted(k) == \E i \in DOMAIN r.targets :
                              k = << c, r.targets[i].side, r.targets[i].layer >>
              QuoteOf(k) == r.targets[CHOOSE i \in DOMAIN r.targets :
                              k = << c, r.targets[i].side, r.targets[i].layer >>]
              Keys == { k \in DOMAIN entries : k[1] = c }
                        \cup { << c, r.targets[i].side, r.targets[i].layer >> :
                                 i \in DOMAIN r.targets }
              EntryOf(k) == IF k \in DOMAIN entries THEN entries[k]
                            ELSE [price |-> QuoteOf(k).price, is_bid |-> k[2] = "bid",
                                  size_usd |-> QuoteOf(k).size_usd,
                                  volume_traded_through |-> 0]
              Through(k) == EntryOf(k).volume_traded_through
                              + CrossedVolume(r.fed, EntryOf(k))
              Likely(k) == 100 * Through(k) >= 70 * 2 * EntryOf(k).size_usd * PxUnit
              FillsOf(k) == { i \in DOMAIN r.filled :
                                << r.filled[i].coin, r.filled[i].side, r.filled[i].layer >> = k }
          IN /\ \A k \in Keys :
                  IF Likely(k)
                  THEN /\ Cardinality(FillsOf(k)) = 1
                       /\ \A i \in FillsOf(k) :
                            r.filled[i].maker_rebate_usd * 10000
                              = r.filled[i].size_usd * PxUnit
                       /\ k \notin DOMAIN entries'
                  ELSE FillsOf(k) = {} /\ k \in DOMAIN entries'
             /\ \A i \in DOMAIN r.filled :
                  << r.filled[i].coin, r.filled[i].side, r.filled[i].layer >> \in Keys
             /\ PosOf(positions', c) - PosOf(positions, c) = FilledCoins(r.filled, MidPx)
             /\ \A d \in Coins \ {c} : PosOf(positions', d) = PosOf(positions, d)]_vars

\* ------------------------------------------------------- order-flow imbalance

\* OfiCalculator::record
record(window, is_buy, size_usd) ==
    Append(IF Len(window) >= OfiWindowSize THEN Tail(window) ELSE window,
           [is_buy |-> is_buy, size_usd |-> size_usd])

\* self.window.iter().filter(side).map(size).sum(), summed by halves.
RECURSIVE SideVolume(_, _)
SideVolume(window, is_buy) ==
    IF window = << >> THEN 0
    ELSE IF Len(window) = 1
    THEN (IF window[1].is_buy = is_buy THEN window[1].size_usd ELSE 0)
    ELSE SideVolume(SubSeq(window, 1, Len(window) \div 2), is_buy)
         + SideVolume(SubSeq(window, Len(window) \div 2 + 1, Len(window)), is_buy)

ofi_fraction_AtMostMinEvents(window) ==
    LET buy_vol == SideVolume(window, TRUE)
        sell_vol == SideVolume(window, FALSE)
        total == buy_vol + sell_vol
    IN IF window = << >> THEN [num |-> 0, den |-> 1]
       ELSE IF Len(window) <= OfiMinEvents THEN [num |-> 0, den |-> 1]
       ELSE IF total <= OfiMinVolumeUsd THEN [num |-> 0, den |-> 1]
       ELSE [num |-> buy_vol - sell_vol, den |-> total]

\* OfiCalculator::ofi_fraction, as the fraction num / den.
ofi_fraction(window) ==
    LET buy_vol == SideVolume(window, TRUE)
        sell_vol == SideVolume(window, FALSE)
        total == buy_vol + sell_vol
    IN IF window = << >> THEN [num |-> 0, den |-> 1]
       ELSE IF Len(window) < OfiMinEvents THEN [num |-> 0, den |-> 1]
       ELSE IF total <= OfiMinVolumeUsd THEN [num |-> 0, den |-> 1]
       ELSE [num |-> buy_vol - sell_vol, den |-> total]

\* n calls of record with the same event: the first n / 2 calls, then the
\* others. The test on first makes TLC compute it before it goes on, which
\* keeps the evaluation shallow; first holds an event, so the test is true.
RECURSIVE RecordRun(_, _, _, _)
RecordRun(window, is_buy, size_usd, n) ==
    IF n = 0 THEN window
    ELSE IF n = 1 THEN record(window, is_buy, size_usd)
    ELSE LET first == RecordRun(window, is_buy, size_usd, n \div 2)
         IN IF Len(first) > 0
            THEN RecordRun(first, is_buy, size_usd, n - n \div 2)
            ELSE first

\* The trades fed: price in USD, size in coins, and the lengths of the runs
\* of equal trades.
OfiPrices == {10}
OfiSizes == {25, 30}
OfiRuns == {1, 19, 20, 180}

\* MmExecutionEngine::record_taker_trade(coin, is_buy, price, size), called
\* n times in a row with the same trade: size_usd = price * size.
RecordTakerTrades(is_buy, price, size, n) ==
    /\ Len(ofi_hist) < MaxOfiRuns
    /\ ofi_window' = RecordRun(ofi_window, is_buy, price * size, n)
    /\ ofi_hist' = Append(ofi_hist, [n |-> n, is_buy |-> is_buy, size_usd |-> price * size])
    /\ UNCHANGED << sys_vars, backoff_vars, later_vars, gov_call, grid_vars, lock_vars, perf_vars, sign_vars >>

RecordTakerTradesStep ==
    \E is_buy \in BOOLEAN, price \in OfiPrices, size \in OfiSizes, n \in OfiRuns :
        RecordTakerTrades(is_buy, price, size, n)

InitOfi ==
    /\ InitTasks
    /\ shadow_mode = TRUE
    /\ starting_balance = SimBalance
    /\ daily_pnl_usd = 0
    /\ venue_fills = << >>
    /\ ws_sent = 0
    /\ resting = [c \in Coins |-> 0]
    /\ open_orders = NoOpenOrders
    /\ config_rx = {}

NextOfi == RecordTakerTradesStep

SpecOfi == InitOfi /\ [][NextOfi]_vars

\* The events of the runs, in order.
RECURSIVE Events(_)
Events(runs) ==
    IF runs = << >> THEN << >>
    ELSE Events(SubSeq(runs, 1, Len(runs) - 1))
         \o [i \in 1 .. runs[Len(runs)].n |->
                [is_buy |-> runs[Len(runs)].is_buy, size_usd |-> runs[Len(runs)].size_usd]]

\* The sum of the sizes of the events lo .. hi of evs on the side is_buy.
RECURSIVE SumSizes(_, _, _, _)
SumSizes(evs, lo, hi, is_buy) ==
    IF lo > hi THEN 0
    ELSE IF lo = hi THEN (IF evs[lo].is_buy = is_buy THEN evs[lo].size_usd ELSE 0)
    ELSE SumSizes(evs, lo, (lo + hi) \div 2, is_buy)
         + SumSizes(evs, (lo + hi) \div 2 + 1, hi, is_buy)

GovAtrs == {CalmAtr - 1, CalmAtr, 325, ChaoticAtr - 1, ChaoticAtr}
GovCfrs == {50, 51, 75, 101}
GovP95s == {50000, 50001, 100000, 100001}
GovFundings == {-MaxFundingHalt, 1 - MaxFundingHalt, MaxFundingHalt - 1, MaxFundingHalt}

\* RegimeGovernor::update(atr_fraction, cancel_fill_ratio, p95_latency_us,
\* funding_rate) called on the governor.
GovUpdate(atr, cfr, p95, funding) ==
    /\ LET g == RegimeUpdate(gov_mult, atr, cfr, p95, funding) IN
        /\ gov_regime' = g.regime
        /\ gov_mult' = g.mult
    /\ gov_call' = [op |-> "update", atr |-> atr, cfr |-> cfr, p95 |-> p95,
                    funding |-> funding]
    /\ UNCHANGED << engine_vars, eng_lock, venue_vars, ws_vars, mon_vars, dd_vars,
                    drain_fills, main_vars, config_rx, mult, shadow_mode,
                    daily_pnl_usd, aux_vars, ofi_vars, grid_vars, lock_vars,
                    perf_vars, sign_vars, backoff_vars, later_vars >>

GovUpdateStep ==
    \E atr \in GovAtrs, cfr \in GovCfrs, p95 \in GovP95s, funding \in GovFundings :
        GovUpdate(atr, cfr, p95, funding)

InitGov ==
    /\ InitTasks
    /\ shadow_mode = TRUE
    /\ starting_balance = SimBalance
    /\ daily_pnl_usd = 0
    /\ venue_fills = << >>
    /\ ws_sent = 0
    /\ resting = [c \in Coins |-> 0]
    /\ open_orders = NoOpenOrders
    /\ config_rx = {}

NextGov == GovUpdateStep

SpecGov == InitGov /\ [][NextGov]_vars

\* C23: the spread multiplier is always within [1.0, 4.0]; after an update
\* the regime is "halt" exactly when |funding_rate| >= 0.003 or atr_fraction
\* >= 0.005; otherwise the multiplier is the product of the volatility
\* multiplier (1 below 0.0015, then 1 + 2 (atr - 0.0015) / 0.0035), the
\* cancel-to-fill multiplier (1 up to 50, ratio / 50 up to 100, then 2) and
\* the latency multiplier (1, 1.5 above 50 ms, 2 above 100 ms), clamped to
\* [1.0, 4.0], and the regime is "uncertain" if that is > 1.5, else "calm".
\* Multipliers are compared as multiples of 1 / 35000, the unit of gov_mult.
C23_RegimeGovernor ==
    LET a == gov_call.atr
        vol350 == IF a < 150 THEN 350 ELSE 350 + 2 * (a - 150)
        cfm50 == IF gov_call.cfr <= 50 THEN 50
                 ELSE IF gov_call.cfr <= 100 THEN gov_call.cfr ELSE 100
        lat2 == IF gov_call.p95 <= 50000 THEN 2
                ELSE IF gov_call.p95 <= 100000 THEN 3 ELSE 4
        product == vol350 * cfm50 * lat2
        clamped == IF product < 35000 THEN 35000
                   ELSE IF product > 140000 THEN 140000 ELSE product
        halt == Abs(gov_call.funding) >= 300 \/ a >= 500
    IN /\ MultUnit = 35000
       /\ gov_mult >= 35000
       /\ gov_mult <= 140000
       /\ gov_call.op = "update"
          => /\ gov_regime = "halt" <=> halt
             /\ ~halt => /\ gov_mult = clamped
                         /\ gov_regime = (IF 2 * clamped > 3 * 35000
                                           THEN "uncertain" ELSE "calm")

\* An update with a P95 latency just above 50 ms, every other input just
\* under its first threshold and the funding rate just under the halt,
\* gives the multiplier 1.5 exactly, which is calm.
C23_Witness ==
    /\ gov_call.op = "update"
    /\ gov_call.p95 = 50001 /\ gov_call.atr = 149 /\ gov_call.cfr = 50
    /\ gov_call.funding = 299
    /\ 2 * gov_mult = 3 * MultUnit
    /\ gov_regime = "calm"

\* --------------------------------------------------- the quote grid, alone

\* Prices and tick sizes are integers in one price unit, base_spread_bps is
\* counted in half basis points and the regime multiplier in halves. The
\* arithmetic is that of the reals: the inputs below are those for which
\* every quotient of compute_quote_grid before the snap is an integer.

\* f64::round of n / d for d > 0: nearest integer, halves away from zero.
RoundDiv(n, d) ==
    IF n >= 0 THEN (2 * n + d) \div (2 * d) ELSE -((d - 2 * n) \div (2 * d))

\* snap_to_tick
snap_to_tick(price, tick_size) ==
    IF tick_size <= 0 THEN price ELSE RoundDiv(price, tick_size) * tick_size

\* effective_spread = mid * (base_spread_bps / 10_000) * regime_multiplier
effective_spread(mid_price, config, regime_multiplier) ==
    (((mid_price * config.base_spread_hbps) \div 20000) * regime_multiplier) \div 2

\* min_distance_from_mid = mid * (1.5 / 10_000)
min_distance_from_mid(mid_price) == (mid_price * 3) \div 20000

skew_amount_Uncapped(mid_price, config, inv_usd, regime_multiplier) ==
    LET eff == effective_spread(mid_price, config, regime_multiplier)
        inv_c == Max(-config.max_inv_usd, Min(config.max_inv_usd, inv_usd))
    IN (inv_c * eff * 3) \div (2 * config.max_inv_usd)

\* skew_amount after the cap; max_inv_usd > 0, so that clamping
\* inv_usd / max_inv_usd to [-1, 1] is clamping inv_usd to +- max_inv_usd.
skew_amount(mid_price, config, inv_usd, regime_multiplier) ==
    LET eff == effective_spread(mid_price, config, regime_multiplier)
        inv_c == Max(-config.max_inv_usd, Min(config.max_inv_usd, inv_usd))
        raw == (inv_c * eff * 3) \div (2 * config.max_inv_usd)
        max_allowed_skew == Max(eff - min_distance_from_mid(mid_price), 0)
    IN Max(-max_allowed_skew, Min(max_allowed_skew, raw))

\* spreads[i]: effective_spread times 1, 2.5 and 5.
LayerSpread(eff, layer) ==
    IF layer = 1 THEN eff ELSE IF layer = 2 THEN (eff * 5) \div 2 ELSE eff * 5

\* sizes[i]: min_order_usd.max(12.0) times 1, 2 and 3.
LayerSize(config, layer) == Max(config.min_order_usd, BaseSzUsd) * layer

\* QuoteGrid::default()
NoQuotes == [bids |-> << >>, asks |-> << >>]

\* The quote of one side at one layer, or nothing when the side is
\* suppressed or the price fails the side's test.
LayerQuotes(side, layer, mid_price, config, skew, eff, suppress) ==
    LET sp == LayerSpread(eff, layer)
        price == IF side = "bid"
                 THEN snap_to_tick(mid_price - sp - skew, config.tick_size)
                 ELSE snap_to_tick(mid_price + sp - skew, config.tick_size)
        keep == IF side = "bid" THEN price > 0 ELSE 10 * price > 9 * mid_price
    IN IF ~suppress /\ keep
       THEN << [price |-> price, side |-> side, layer |-> layer,
                size_usd |-> LayerSize(config, layer)] >>
       ELSE << >>

RECURSIVE SideQuotes(_, _, _, _, _, _, _, _)
SideQuotes(side, layer, max_layers, mid_price, config, skew, eff, suppress) ==
    IF layer > Min(max_layers, 3) THEN << >>
    ELSE LayerQuotes(side, layer, mid_price, config, skew, eff, suppress)
         \o SideQuotes(side, layer + 1, max_layers, mid_price, config, skew, eff, suppress)

\* compute_quote_grid; max_layers is MM_MAX_LAYERS of the environment.
compute_quote_grid(mid_price, config, inv_usd, regime_multiplier, suppress_bids, suppress_asks, max_layers) ==
    IF config.regime = "halt" \/ mid_price <= 0 THEN NoQuotes
    ELSE LET eff == effective_spread(mid_price, config, regime_multiplier)
             skew == skew_amount(mid_price, config, inv_usd, regime_multiplier)
         IN [bids |-> SideQuotes("bid", 1, max_layers, mid_price, config, skew,
                                 eff, suppress_bids),
             asks |-> SideQuotes("ask", 1, max_layers, mid_price, config, skew,
                                 eff, suppress_asks)]

GridMids == {0, 400000, 800000}
GridTicks == {0, 1, 1000, 30000}
GridSpreads == {0, 2, 3, 6, 2000}
GridMultipliers == {2, 3, 8}
GridMaxInvs == {5, 10}
GridInvs == {-11, -4, 0, 4, 10}
GridLayers == {1, 3}

GridConfigs ==
    [regime : {"calm", "halt"}, tick_size : GridTicks, base_spread_hbps : GridSpreads,
     max_inv_usd : GridMaxInvs, min_order_usd : {10}]

\* The calls of compute_quote_grid considered; each quotient taken before
\* the snap is exact.
GridInputs ==
    { i \in [mid_price : GridMids, config : GridConfigs, regime_multiplier : GridMultipliers,
             inv_usd : GridInvs, max_layers : GridLayers,
             suppress_bids : BOOLEAN, suppress_asks : BOOLEAN] :
        LET eff == effective_spread(i.mid_price, i.config, i.regime_multiplier)
            inv_c == Max(-i.config.max_inv_usd, Min(i.config.max_inv_usd, i.inv_usd))
        IN /\ (i.mid_price * i.config.base_spread_hbps) % 20000 = 0
           /\ (((i.mid_price * i.config.base_spread_hbps) \div 20000)
                 * i.regime_multiplier) % 2 = 0
           /\ (i.mid_price * 3) % 20000 = 0
           /\ (inv_c * eff * 3) % (2 * i.config.max_inv_usd) = 0
           /\ (eff * 5) % 2 = 0 }

\* compute_quote_grid is applied to the inputs drawn.
ComputeQuoteGrid ==
    /\ grid_out' = [called |-> TRUE,
                    grid |-> compute_quote_grid(grid_in.mid_price, grid_in.config,
                                 grid_in.inv_usd, grid_in.regime_multiplier,
                                 grid_in.suppress_bids, grid_in.suppress_asks,
                                 grid_in.max_layers)]
    /\ UNCHANGED << sys_vars, backoff_vars, later_vars, ofi_vars, gov_call, grid_in, lock_vars, perf_vars,
                    sign_vars >>

InitGrid ==
    /\ InitEngine
    /\ sign_in = NoSignIn
    /\ sign_out = NoSignOut
    /\ window_size = 0
    /\ history = << >>
    /\ recorded = << >>
    /\ grid_in \in GridInputs
    /\ grid_out = NoGridOut
    /\ shadow_mode = TRUE
    /\ starting_balance = SimBalance
    /\ daily_pnl_usd = 0
    /\ venue_fills = << >>
    /\ ws_sent = 0
    /\ resting = [c \in Coins |-> 0]
    /\ open_orders = NoOpenOrders
    /\ config_rx = {}

NextGrid == ComputeQuoteGrid

SpecGrid == InitGrid /\ [][NextGrid]_vars

\* The quotes of a grid, both sides.
Quotes(grid) ==
    {grid.bids[k] : k \in DOMAIN grid.bids} \cup {grid.asks[k] : k \in DOMAIN grid.asks}

\* C24: for every grid computed with a non-halt config and mid > 0, whatever
\* the tick size, spread, inventory and regime multiplier: every bid price
\* is strictly below mid, every ask price is strictly above 0.9 * mid, and
\* every quote price is an integer multiple of tick_size.
C24_GridPrices ==
    (grid_out.called /\ grid_in.config.regime # "halt" /\ grid_in.mid_price > 0)
    => /\ \A k \in DOMAIN grid_out.grid.bids :
              grid_out.grid.bids[k].price < grid_in.mid_price
       /\ \A k \in DOMAIN grid_out.grid.asks :
              10 * grid_out.grid.asks[k].price > 9 * grid_in.mid_price
       /\ \A q \in Quotes(grid_out.grid) :
              IF grid_in.config.tick_size = 0 THEN q.price = 0
              ELSE q.price % Abs(grid_in.config.tick_size) = 0

\* C25: fee safety: the applied skew satisfies |skew| <= max(0, eff -
\* min_dist) with min_dist = 1.5 bps of mid, and no quote of the returned
\* grid, after the snap, lies closer to mid than min_dist.
C25_FeeSafety ==
    (grid_out.called /\ grid_in.config.regime # "halt" /\ grid_in.mid_price > 0)
    => LET eff == effective_spread(grid_in.mid_price, grid_in.config,
                                   grid_in.regime_multiplier)
           min_dist == min_distance_from_mid(grid_in.mid_price)
           skew == skew_amount(grid_in.mid_price, grid_in.config, grid_in.inv_usd,
                               grid_in.regime_multiplier)
       IN /\ Abs(skew) <= Max(0, eff - min_dist)
          /\ \A q \in Quotes(grid_out.grid) :
                 Abs(q.price - grid_in.mid_price) >= min_dist

\* The grid compute_quote_grid returns for the inputs drawn, with another
\* inventory.
GridAt(inv_usd) ==
    compute_quote_grid(grid_in.mid_price, grid_in.config, inv_usd,
                       grid_in.regime_multiplier, grid_in.suppress_bids,
                       grid_in.suppress_asks, grid_in.max_layers)

\* No quote of grid g2 is priced above the quote of g1 of the same side
\* and layer.
NotAbove(g2, g1) ==
    \A q1 \in Quotes(g1), q2 \in Quotes(g2) :
        (q1.side = q2.side /\ q1.layer = q2.layer) => q2.price <= q1.price

\* C26: with all other inputs fixed, a larger inv_usd never raises any
\* layer's bid or ask price in the grid returned; both sides are at or
\* below their flat prices when long and at or above them when short; and
\* when eff <= min_dist the grid is the same for every inventory.
C26_SkewMonotone ==
    (grid_out.called /\ grid_in.config.regime # "halt" /\ grid_in.mid_price > 0)
    => /\ \A inv2 \in GridInvs :
              /\ inv2 >= grid_in.inv_usd => NotAbove(GridAt(inv2), grid_out.grid)
              /\ inv2 <= grid_in.inv_usd => NotAbove(grid_out.grid, GridAt(inv2))
       /\ grid_in.inv_usd > 0 => NotAbove(grid_out.grid, GridAt(0))
       /\ grid_in.inv_usd < 0 => NotAbove(GridAt(0), grid_out.grid)
       /\ effective_spread(grid_in.mid_price, grid_in.config, grid_in.regime_multiplier)
             <= min_distance_from_mid(grid_in.mid_price)
          => \A inv2 \in GridInvs : GridAt(inv2) = grid_out.grid

\* A three-layer grid computed for a long inventory at a spread above
\* min_dist: each of its six quotes is strictly below the flat grid's.
C26_Witness ==
    /\ grid_out.called
    /\ grid_in.inv_usd = 4 /\ grid_in.config.max_inv_usd = 10
    /\ grid_in.config.tick_size = 1
    /\ Len(grid_out.grid.bids) = 3 /\ Len(grid_out.grid.asks) = 3
    /\ \A k \in 1 .. 3 :
          /\ grid_out.grid.bids[k].price < GridAt(0).bids[k].price
          /\ grid_out.grid.asks[k].price < GridAt(0).asks[k].price
          /\ grid_out.grid.bids[k].price > GridAt(10).bids[k].price
          /\ grid_out.grid.asks[k].price > GridAt(10).asks[k].price

\* ------------------------------------------------------- mutex discipline

\* The mutexes of main(): the engine's tokio::sync::Mutex and the five
\* std::sync::Mutex.
SyncMutexes == {"buffer", "auditor", "governor", "session", "estimator"}
Mutexes == {"engine"} \cup SyncMutexes

\* The spawned tasks and the main loop.
Tasks == {"ingestor", "watchdog", "fills", "latency", "stall", "dd", "reporter", "main"}

\* One statement of a task's loop: the mutex it locks on entry ("none" for
\* no lock), the guards dropped when it is left, whether it awaits while it
\* runs (a sleep, an exchange call, or engine.lock().await), the mode it
\* exists in, and the statements that can follow it.
Stmt_GuardsNeverDropped(acq, rel, aw, mode, next) ==
    [acq |-> acq, rel |-> {}, mode |-> mode, next |-> next, await |-> aw]

Stmt(acq, rel, aw, mode, next) ==
    [acq |-> acq, rel |-> rel, mode |-> mode, next |-> next, await |-> aw]

\* The statement that starts the per-asset body, or the next tick.
NextAsset == {1, 7, 8}

\* The loop of each task, statement by statement.
Program ==
    [t \in Tasks |->
    CASE t = "ingestor" ->
           << Stmt("none", {}, TRUE, "any", {2}),               \* read.next().await
              Stmt("buffer", {"buffer"}, FALSE, "any", {1}) >>  \* update_l2 / add_trade / touch
      [] t = "watchdog" ->
           << Stmt("none", {}, TRUE, "any", {2}),               \* sleep(5 s)
              Stmt("buffer", {"buffer"}, FALSE, "any", {1}) >>  \* buf.is_stalled()
      [] t = "fills" ->
           << Stmt("none", {}, TRUE, "any", {2}),               \* sleep(100 ms)
              Stmt("buffer", {"buffer"}, FALSE, "any", {1, 3}), \* take(&mut buf.user_fills)
              Stmt("engine", {"engine"}, TRUE, "any", {1}) >>   \* eng.inventory.apply_fill
      [] t = "latency" ->
           << Stmt("none", {}, TRUE, "any", {2}),               \* sleep(30 s)
              Stmt("auditor", {"auditor"}, FALSE, "any", {1}) >> \* aud.lock().unwrap().report()
      [] t = "stall" ->
           << Stmt("none", {}, TRUE, "any", {2}),               \* sleep(250 ms), no edge
              Stmt("engine", {"engine"}, TRUE, "any", {1}) >>   \* cancel_all / reconcile
      [] t = "dd" ->
           << Stmt("none", {}, TRUE, "any", {2}),               \* sleep(60 s)
              Stmt("engine", {}, TRUE, "any", {3}),             \* let mut eng; check_global_drawdown_stop
              Stmt("auditor", {"auditor"}, FALSE, "any", {4}),  \* ad.lock().unwrap().p95_us()
              Stmt("governor", {"governor"}, FALSE, "any", {5}), \* gv.lock().unwrap().update
              Stmt("none", {"engine"}, FALSE, "any", {1}) >>    \* is_cancel_fill_ratio_breached; eng dropped
      [] t = "reporter" ->
           << Stmt("none", {}, TRUE, "shadow", {2}),            \* sleep(60 s)
              Stmt("session", {"session"}, FALSE, "shadow", {1, 3}), \* s.report()
              Stmt("none", {}, TRUE, "shadow", {1}) >>          \* publish_status
      [] OTHER ->
           << Stmt("none", {}, TRUE, "any", {2}),               \* 1 sleep(100 ms)
              Stmt("engine", {"engine"}, TRUE, "any", {1, 3}),  \* 2 is_halted
              Stmt("governor", {"governor"}, FALSE, "any", {1, 4, 5}), \* 3 gov.is_halt
              Stmt("engine", {"engine"}, TRUE, "live", {5}),    \* 4 instant flush
              Stmt("buffer", {"buffer"}, FALSE, "any", {6} \cup NextAsset), \* 5 snapshot
              Stmt("engine", {"engine"}, TRUE, "live", NextAsset), \* 6 reconciliation
              Stmt("engine", {"engine"}, TRUE, "any", {8}),     \* 7 record_taker_trade
              Stmt("engine", {"engine"}, TRUE, "any", {9}),     \* 8 cancel_fill_ratio
              Stmt("auditor", {"auditor"}, FALSE, "any", {10}), \* 9 p95_us
              Stmt("governor", {"governor"}, FALSE, "any", {11}), \* 10 update
              Stmt("engine", {"engine"}, TRUE, "any", {12}),    \* 11 inv_usd
              Stmt("engine", {"engine"}, TRUE, "any", {13}),    \* 12 ofi_bids_blocked
              Stmt("engine", {"engine"}, TRUE, "any", {14, 20} \cup NextAsset), \* 13 ofi_asks_blocked
              Stmt("estimator", {"estimator"}, FALSE, "shadow", {15, 16} \cup NextAsset), \* 14 register
              Stmt("estimator", {"estimator"}, FALSE, "shadow", {16} \cup NextAsset), \* 15 on_trade
              Stmt("estimator", {"estimator"}, FALSE, "shadow", {16, 17} \cup NextAsset), \* 16 is_likely_filled
              Stmt("session", {"session"}, FALSE, "shadow", {18}), \* 17 record_fill
              Stmt("estimator", {"estimator"}, FALSE, "shadow", {19}), \* 18 remove
              Stmt("engine", {"engine"}, TRUE, "shadow", {16} \cup NextAsset), \* 19 apply_fill
              Stmt("engine", {"engine"}, TRUE, "live", NextAsset) >> ] \* 20 live placement

\* The mutexes held by the other tasks.
HeldByOthers(t) == UNION {holding[u] : u \in Tasks \ {t}}

\* The statements that can follow statement k of task t in the session's
\* mode.
Following(t, k) ==
    { n \in Program[t][k].next :
        Program[t][n].mode \in {"any", IF shadow_mode THEN "shadow" ELSE "live"} }

\* Task t's statement ends: the guards it drops are dropped, and the
\* statement n the task goes to next is decided. Where n locks a mutex the
\* task now waits for it; where it locks none the task is in n at once.
LeaveStmt(t) ==
    /\ ~lock_done[t]
    /\ Program[t][lock_pc[t]].rel # {}
    /\ holding' = [holding EXCEPT ![t] = holding[t] \ Program[t][lock_pc[t]].rel]
    /\ \E n \in Following(t, lock_pc[t]) :
          IF Program[t][n].acq = "none"
          THEN /\ lock_pc' = [lock_pc EXCEPT ![t] = n]
               /\ UNCHANGED << lock_done, lock_req >>
          ELSE /\ lock_done' = [lock_done EXCEPT ![t] = TRUE]
               /\ lock_req' = [lock_req EXCEPT ![t] = n]
               /\ UNCHANGED lock_pc
    /\ UNCHANGED << sys_vars, backoff_vars, later_vars, ofi_vars, gov_call, grid_vars, perf_vars,
                    sign_vars >>

\* The statement task t waits to enter (0: none): the one decided when its
\* last statement ended, or the one that follows a statement that drops no
\* guard (a sleep, or the monitor's statements under its engine guard).
Requested(t) ==
    IF lock_req[t] # 0 THEN lock_req[t]
    ELSE IF Program[t][lock_pc[t]].rel = {} /\ Following(t, lock_pc[t]) # {}
         THEN CHOOSE n \in Following(t, lock_pc[t]) : TRUE
         ELSE 0

\* Task t enters the statement n it waits for, locking n's mutex, which
\* must be free.
EnterStmt(t, n) ==
    LET nxt == Program[t][n] IN
       /\ n = Requested(t)
       /\ nxt.acq # "none" => nxt.acq \notin (HeldByOthers(t) \cup holding[t])
       /\ lock_pc' = [lock_pc EXCEPT ![t] = n]
       /\ lock_done' = [lock_done EXCEPT ![t] = FALSE]
       /\ lock_req' = [lock_req EXCEPT ![t] = 0]
       /\ holding' = [holding EXCEPT ![t] = holding[t] \cup ({nxt.acq} \ {"none"})]
       /\ UNCHANGED << sys_vars, backoff_vars, later_vars, ofi_vars, gov_call, grid_vars, perf_vars, sign_vars >>

LeaveStep == \E t \in Tasks : LeaveStmt(t)

EnterStep == \E t \in Tasks : \E n \in DOMAIN Program[t] : EnterStmt(t, n)

InitLocks ==
    /\ InitEngine
    /\ sign_in = NoSignIn
    /\ sign_out = NoSignOut
    /\ window_size = 0
    /\ history = << >>
    /\ recorded = << >>
    /\ grid_in = NoGridIn
    /\ grid_out = NoGridOut
    /\ shadow_mode \in BOOLEAN
    /\ starting_balance = SimBalance
    /\ daily_pnl_usd = 0
    /\ venue_fills = << >>
    /\ ws_sent = 0
    /\ resting = [c \in Coins |-> 0]
    /\ open_orders = NoOpenOrders
    /\ config_rx = {}

NextLocks == LeaveStep \/ EnterStep

SpecLocks == InitLocks /\ [][NextLocks]_vars

\* C27: no task ever holds two mutexes at the same time, and no synchronous
\* mutex is holding across an await: a task that awaits holds at most the
\* engine's async mutex.
C27_LockDiscipline ==
    \A t \in Tasks :
        /\ Cardinality(holding[t]) <= 1
        /\ (~lock_done[t] /\ Program[t][lock_pc[t]].await)
           => holding[t] \subseteq {"engine"}

\* ----------------------------------------------------- PerformanceMonitor

\* The pnl values recorded.
TradePnls == {-10, 0, 10}

\* MonitorConfig.window_size, a usize.
WindowSizes == 0 .. MaxWindow

record_trade_EvictsAbove(h, ws, pnl) ==
    LET kept == IF Len(h) > ws THEN Tail(h) ELSE h
    IN Append(kept, [pnl |-> pnl, is_win |-> pnl > 0])

\* PerformanceMonitor::record_trade: pop_front on a VecDeque that is empty
\* removes nothing.
record_trade(h, ws, pnl) ==
    LET kept == IF Len(h) >= ws
                THEN (IF h = << >> THEN h ELSE Tail(h))
                ELSE h
    IN Append(kept, [pnl |-> pnl, is_win |-> pnl > 0])

\* monitor.record_trade(pnl)
RecordTrade(pnl) ==
    /\ Len(recorded) < MaxRecorded
    /\ history' = record_trade(history, window_size, pnl)
    /\ recorded' = Append(recorded, pnl)
    /\ UNCHANGED << sys_vars, backoff_vars, later_vars, ofi_vars, gov_call, grid_vars, lock_vars, window_size,
                    sign_vars >>

RecordTradeStep == \E pnl \in TradePnls : RecordTrade(pnl)

\* PerformanceMonitor::new(config), for each window_size.
InitMonitor ==
    /\ InitEngine
    /\ sign_in = NoSignIn
    /\ sign_out = NoSignOut
    /\ grid_in = NoGridIn
    /\ grid_out = NoGridOut
    /\ window_size \in WindowSizes
    /\ history = << >>
    /\ recorded = << >>
    /\ shadow_mode = TRUE
    /\ starting_balance = SimBalance
    /\ daily_pnl_usd = 0
    /\ venue_fills = << >>
    /\ ws_sent = 0
    /\ resting = [c \in Coins |-> 0]
    /\ open_orders = NoOpenOrders
    /\ config_rx = {}

NextMonitor == RecordTradeStep

SpecMonitor == InitMonitor /\ [][NextMonitor]_vars

\* The last k of the pnls rec, as results.
LastResults(rec, k) ==
    [i \in 1 .. k |->
        [pnl |-> rec[Len(rec) - k + i], is_win |-> rec[Len(rec) - k + i] > 0]]

\* C28 as stated: after n record_trade calls history holds exactly the last
\* min(n, window_size) results in arrival order, and a record_trade on a
\* full window evicts the oldest result and no other.
C28_WindowRolling_AsStated ==
    [][recorded' # recorded
       => /\ history' = LastResults(recorded', Min(Len(recorded'), window_size))
          /\ Len(history) = window_size
             => \E r \in [pnl : TradePnls, is_win : BOOLEAN] :
                    history' = SubSeq(history, 2, Len(history)) \o << r >>]_vars

\* C28, for every window_size including 0: after n >= 1 record_trade calls
\* history holds exactly the last min(n, max(1, window_size)) results in
\* arrival order; a record_trade on a window holding window_size results or
\* more evicts the oldest result, if there is one, and no other.
C28_WindowRolling ==
    [][recorded' # recorded
       => /\ history' = LastResults(recorded',
                                  Min(Len(recorded'), Max(1, window_size)))
          /\ Len(history) >= window_size
             => \E r \in [pnl : TradePnls, is_win : BOOLEAN] :
                    history' = SubSeq(history, 2, Len(history)) \o << r >>
          /\ Len(history) < window_size
             => \E r \in [pnl : TradePnls, is_win : BOOLEAN] :
                    history' = history \o << r >>]_vars

\* A window of 2 after three trades: the first result was evicted and the
\* last two are held in arrival order.
C28_Witness ==
    /\ window_size = 2
    /\ recorded = << 10, -10, 0 >>
    /\ history = << [pnl |-> -10, is_win |-> FALSE], [pnl |-> 0, is_win |-> FALSE] >>

\* ------------------------------------------------------------- the signer

\* A map is the sequence of its entries, in the order in which a serializer
\* walks it.
Entry(k, v) == [key |-> k, value |-> v]

Keys(m) == [i \in DOMAIN m |-> m[i].key]

\* serde_json::Map::insert of a key the map does not hold, the map keeping
\* its entries in insertion order (serde_json's preserve_order feature,
\* selected by the crate manifest).
MapInsert(m, k, v) == Append(m, Entry(k, v))

\* rmp_serde with_struct_map: a struct is packed as a map of its fields in
\* declaration order. OrderWireMsgPack of one OrderRequest.
PackOrder(o) ==
    << Entry("a", o.asset), Entry("b", o.is_buy), Entry("p", o.limit_px),
       Entry("s", o.sz), Entry("r", o.reduce_only),
       Entry("t", << Entry("limit", << Entry("tif", o.tif) >>) >>) >>

\* ActionMsgPack of an ActionWire.
PackAction(action) ==
    << Entry("type", action.type),
       Entry("orders", [i \in DOMAIN action.orders |-> PackOrder(action.orders[i])]),
       Entry("grouping", action.grouping) >>

\* CancelActionMsgPack of sign_cancel_action.
PackCancel(asset, oid) ==
    << Entry("type", "cancel"),
       Entry("cancels", << << Entry("a", asset), Entry("o", oid) >> >>) >>

\* n >> (8 * k)
RECURSIVE ShiftRightBytes(_, _)
ShiftRightBytes(n, k) == IF k = 0 THEN n ELSE ShiftRightBytes(n \div 256, k - 1)

\* u64::to_be_bytes
to_be_bytes(nonce) == [i \in 1 .. 8 |-> ShiftRightBytes(nonce, 8 - i) % 256]

\* The bytes compute_action_hash appends to the packed map with no vault
\* address: the nonce, then 0x00.
HashTail(nonce) == to_be_bytes(nonce) \o << 0 >>

JsonOrder_ReduceOnlyFirst(o) ==
    LET tif_map == MapInsert(<< >>, "tif", o.tif)
        limit_map == MapInsert(<< >>, "limit", tif_map)
        m1 == MapInsert(<< >>, "a", o.asset)
        m2 == MapInsert(m1, "b", o.is_buy)
        m3 == MapInsert(m2, "p", o.limit_px)
        m4 == MapInsert(m3, "r", o.reduce_only)
        m5 == MapInsert(m4, "s", o.sz)
    IN MapInsert(m5, "t", limit_map)

\* The JSON order object of sign_l1_action.
JsonOrder(o) ==
    LET tif_map == MapInsert(<< >>, "tif", o.tif)
        limit_map == MapInsert(<< >>, "limit", tif_map)
        m1 == MapInsert(<< >>, "a", o.asset)
        m2 == MapInsert(m1, "b", o.is_buy)
        m3 == MapInsert(m2, "p", o.limit_px)
        m4 == MapInsert(m3, "s", o.sz)
        m5 == MapInsert(m4, "r", o.reduce_only)
    IN MapInsert(m5, "t", limit_map)

\* The JSON action of sign_l1_action.
JsonAction(action) ==
    LET m1 == MapInsert(<< >>, "type", action.type)
        m2 == MapInsert(m1, "orders",
                        [i \in DOMAIN action.orders |-> JsonOrder(action.orders[i])])
    IN MapInsert(m2, "grouping", action.grouping)

\* The JSON action of sign_cancel_action.
JsonCancel(asset, oid) ==
    LET c1 == MapInsert(<< >>, "a", asset)
        cancel_obj == MapInsert(c1, "o", oid)
        m1 == MapInsert(<< >>, "type", "cancel")
    IN MapInsert(m1, "cancels", << cancel_obj >>)

OrderRequests ==
    [is_buy : BOOLEAN, sz : {"2"}, asset : {0, 1}, limit_px : {"1.5"},
     reduce_only : BOOLEAN, tif : {"Gtc", "Alo"}]

Nonces == {0, 258, 16909060}

\* The calls of the signer: an order action of up to MaxSignOrders orders,
\* or a cancel.
SignInputs ==
    [kind : {"order"}, oid : {0}, asset : {0},
     action : [orders : UNION { [1 .. n -> OrderRequests] : n \in 0 .. MaxSignOrders },
               type : {"order"}, grouping : {"na"}],
     nonce : Nonces]
    \cup
    [kind : {"cancel"}, oid : {7, 8}, asset : {0, 1},
     action : {[orders |-> << >>, type |-> "cancel", grouping |-> "na"]},
     nonce : Nonces]

\* sign_l1_action / sign_cancel_action: the JSON action returned, and the
\* input of the hash as the packed map and the bytes after it.
Sign ==
    /\ sign_out' =
         IF sign_in.kind = "order"
         THEN [called |-> TRUE,
               json |-> JsonAction(sign_in.action),
               packed |-> PackAction(sign_in.action),
               tail |-> HashTail(sign_in.nonce)]
         ELSE [called |-> TRUE,
               json |-> JsonCancel(sign_in.asset, sign_in.oid),
               packed |-> PackCancel(sign_in.asset, sign_in.oid),
               tail |-> HashTail(sign_in.nonce)]
    /\ UNCHANGED << sys_vars, backoff_vars, later_vars, ofi_vars, gov_call, grid_vars, lock_vars, perf_vars,
                    sign_in >>

InitSign ==
    /\ InitEngine
    /\ grid_in = NoGridIn
    /\ grid_out = NoGridOut
    /\ window_size = 0
    /\ history = << >>
    /\ recorded = << >>
    /\ sign_in \in SignInputs
    /\ sign_out = NoSignOut
    /\ shadow_mode = TRUE
    /\ starting_balance = SimBalance
    /\ daily_pnl_usd = 0
    /\ venue_fills = << >>
    /\ ws_sent = 0
    /\ resting = [c \in Coins |-> 0]
    /\ open_orders = NoOpenOrders
    /\ config_rx = {}

NextSign == Sign

SpecSign == InitSign /\ [][NextSign]_vars

\* The entry of map m under key k.
Lookup(m, k) == m[CHOOSE i \in DOMAIN m : m[i].key = k].value

\* Maps j and p hold the same keys in the same order.
SameKeyOrder(j, p) == Keys(j) = Keys(p)

\* The byte string b read as a big-endian number.
RECURSIVE FromBe(_)
FromBe(b) ==
    IF b = << >> THEN 0
    ELSE 256 * FromBe(SubSeq(b, 1, Len(b) - 1)) + b[Len(b)]

max_delay_secs == 32

next_delay_Uncapped(d) == d * 2

\* The delay after a wait of d seconds: min(retry_delay_secs * 2, max_delay_secs).
next_delay(d) == Min(d * 2, max_delay_secs)

\* connect_async answers Ok: the delay is reset and the message loop starts.
ConnectOk ==
    /\ ingest_pc = "connect"
    /\ retry_delay_secs' = 1
    /\ connected' = TRUE
    /\ ingest_pc' = "listening"
    /\ UNCHANGED << sys_vars, ofi_vars, gov_call, grid_vars, lock_vars, perf_vars,
                    sign_vars, later_vars, waits >>

\* connect_async answers Err: straight to the sleep.
ConnectErr ==
    /\ ingest_pc = "connect"
    /\ connected' = FALSE
    /\ ingest_pc' = "sleep"
    /\ UNCHANGED << sys_vars, ofi_vars, gov_call, grid_vars, lock_vars, perf_vars,
                    sign_vars, later_vars, retry_delay_secs, waits >>

\* The message loop ends: a Close frame, a read error, or the end of the
\* stream.
MessageLoopEnds ==
    /\ ingest_pc = "listening"
    /\ ingest_pc' = "sleep"
    /\ UNCHANGED << sys_vars, ofi_vars, gov_call, grid_vars, lock_vars, perf_vars,
                    sign_vars, later_vars, retry_delay_secs, connected, waits >>

\* The sleep of retry_delay_secs seconds and the update of the delay that
\* follows it; the loop then connects again.
Backoff ==
    /\ ingest_pc = "sleep"
    /\ Len(waits) < MaxWaits
    /\ waits' = Append(waits, [secs |-> retry_delay_secs, after_connect |-> connected])
    /\ retry_delay_secs' = next_delay(retry_delay_secs)
    /\ ingest_pc' = "connect"
    /\ UNCHANGED << sys_vars, ofi_vars, gov_call, grid_vars, lock_vars, perf_vars,
                    sign_vars, later_vars, connected >>

InitBackoff ==
    /\ InitEngine
    /\ grid_in = NoGridIn
    /\ grid_out = NoGridOut
    /\ window_size = 0
    /\ history = << >>
    /\ recorded = << >>
    /\ sign_in = NoSignIn
    /\ sign_out = NoSignOut
    /\ shadow_mode = TRUE
    /\ starting_balance = SimBalance
    /\ daily_pnl_usd = 0
    /\ venue_fills = << >>
    /\ ws_sent = 0
    /\ resting = [c \in Coins |-> 0]
    /\ open_orders = NoOpenOrders
    /\ config_rx = {}

NextBackoff == ConnectOk \/ ConnectErr \/ MessageLoopEnds \/ Backoff

SpecBackoff == InitBackoff /\ [][NextBackoff]_vars

\* C30: the reconnect delay is always one of 1, 2, 4, 8, 16, 32 s; the first
\* wait is 1 s, every wait that follows a failed connect is twice the wait
\* before it, capped at 32 s, the delay is 1 s while connected, and the wait
\* after a connection that succeeded and then dropped is 1 s.
C30_ReconnectBackoff ==
    /\ retry_delay_secs \in {1, 2, 4, 8, 16, 32}
    /\ ingest_pc = "listening" => retry_delay_secs = 1
    /\ (waits = << >> /\ ingest_pc = "connect") => retry_delay_secs = 1
    /\ (waits /= << >> /\ ingest_pc = "connect")
       => retry_delay_secs = Min(2 * waits[Len(waits)].secs, 32)
    /\ \A i \in DOMAIN waits :
        /\ waits[i].secs \in {1, 2, 4, 8, 16, 32}
        /\ i = 1 => waits[i].secs = 1
        /\ waits[i].after_connect => waits[i].secs = 1
        /\ (i > 1 /\ ~waits[i].after_connect)
           => waits[i].secs = Min(2 * waits[i - 1].secs, 32)

\* Six failed connects bring the wait to 32 s, a seventh waits 32 s again,
\* then a connection succeeds and drops and the wait is 1 s.
C30_Witness ==
    /\ Len(waits) = 8
    /\ \A i \in 1 .. 7 : ~waits[i].after_connect
    /\ waits[6].secs = 32
    /\ waits[7].secs = 32
    /\ waits[8].after_connect
    /\ waits[8].secs = 1

\* ------------------------------- the message loop and the stall watcher

\* Inbound messages by the arm of the message loop that takes them: a Text
\* frame whose JSON names a channel (with or without the data the arm
\* reads), a Text frame that is not JSON, and the other frames. A Close
\* frame ends the loop and is part of the reconnection loop.
MsgKinds ==
    {"l2Book", "l2Book_no_coin", "trades", "trades_empty", "userFills",
     "userFills_snapshot", "ping", "pong", "subscriptionResponse",
     "unknown_channel", "unparseable_text", "Ping", "Pong", "Binary"}

\* Seconds that pass between two events.
TimeSteps == {1, 5, 25}

\* STALL_TIMEOUT_SECS
STALL_TIMEOUT_SECS == 30

\* Whether the arm that takes the message calls touch, directly or through
\* update_l2, add_trade or add_user_fill.
Touches(kind) ==
    kind \in {"l2Book", "trades", "userFills", "ping", "pong", "Ping"}

\* MarketDataBuffer::is_stalled
is_stalled(last, now_s) == Max(now_s - last, 0) > STALL_TIMEOUT_SECS

\* The clock advances.
WsClock(d) ==
    /\ ws_now + d <= MaxNow
    /\ ws_now' = ws_now + d
    /\ UNCHANGED << sys_vars, ofi_vars, gov_call, grid_vars, lock_vars, perf_vars,
                    sign_vars, backoff_vars, last_ws_message_ms, last_arrival,
                    stall_decl >>

WsClockStep == \E d \in TimeSteps : WsClock(d)

\* One pass of the message loop over a message of the kind.
Receive(kind) ==
    /\ last_arrival' = [any |-> TRUE, at |-> ws_now]
    /\ last_ws_message_ms' = IF Touches(kind) THEN ws_now ELSE last_ws_message_ms
    /\ UNCHANGED << sys_vars, ofi_vars, gov_call, grid_vars, lock_vars, perf_vars,
                    sign_vars, backoff_vars, ws_now, stall_decl >>

ReceiveStep == \E kind \in MsgKinds : Receive(kind)

\* The stall watcher's poll: the flag is stored true when the buffer is
\* stalled and the flag is false.
StallPoll ==
    /\ is_stalled(last_ws_message_ms, ws_now)
    /\ ~stall_decl.flag
    /\ stall_decl' = [at |-> ws_now, flag |-> TRUE]
    /\ UNCHANGED << sys_vars, ofi_vars, gov_call, grid_vars, lock_vars, perf_vars,
                    sign_vars, backoff_vars, ws_now, last_ws_message_ms,
                    last_arrival >>

InitTouch ==
    /\ InitEngine
    /\ grid_in = NoGridIn
    /\ grid_out = NoGridOut
    /\ window_size = 0
    /\ history = << >>
    /\ recorded = << >>
    /\ sign_in = NoSignIn
    /\ sign_out = NoSignOut
    /\ shadow_mode = TRUE
    /\ starting_balance = SimBalance
    /\ daily_pnl_usd = 0
    /\ venue_fills = << >>
    /\ ws_sent = 0
    /\ resting = [c \in Coins |-> 0]
    /\ open_orders = NoOpenOrders
    /\ config_rx = {}

NextTouch == WsClockStep \/ ReceiveStep \/ StallPoll

SpecTouch == InitTouch /\ [][NextTouch]_vars

\* C31: every inbound message updates last_ws_message_ms, so the stall
\* watcher stores true only when no message arrived in the last 30 s.
C31_EveryMessageTouches ==
    /\ last_arrival.any => last_ws_message_ms = last_arrival.at
    /\ (stall_decl.flag /\ last_arrival.any /\ last_arrival.at <= stall_decl.at)
       => stall_decl.at - last_arrival.at > STALL_TIMEOUT_SECS

\* ------------------------------------- quotes of a coin that was removed

\* The main loop runs for ever: every step of a tick is taken in the end.
\* Nothing is required of the screener or of the positions cache.
SpecFlushFair ==
    /\ SpecFlush
    /\ WF_vars(MainTickStart)
    /\ WF_vars(MainWhitelistFlush)
    /\ WF_vars(MainPeriodicReconcile)
    /\ WF_vars(MainCoin)
    /\ WF_vars(MainTickEnd)

\* C32: in live mode the orders that rest for a coin that is off the
\* whitelist are cancelled in the end (or the coin is whitelisted again),
\* whether or not the account holds a position in the coin.
C32_RemovedCoinCancelled ==
    \A c \in Coins :
        (c \notin config_rx /\ resting[c] > 0) ~> (resting[c] = 0 \/ c \in config_rx)

\* ------------------------------------------- cancel-and-replace, per coin

\* C33: in live mode, when the loop body has cancelled and placed a coin's
\* grid, the orders that rest for the coin are at most the round's target
\* quotes: quotes are placed only when every previous order of the coin is
\* gone, also when single cancels fail or the open-orders fetch fails.
C33_ReplaceNeverStacks ==
    coin_ret.gate = "placed" => resting[coin_ret.coin] <= Len(coin_ret.targets)

\* --------------------------------------- a failed cancel-all in reconcile

\* C34: when reconcile_after_reconnect has returned and the engine is not
\* halted, the cancel-all it sent at its start did not fail.
C34_ReconcileKeepsCancelFailure ==
    (mon_pc = "ret" /\ mon_ret.op = "reconcile" /\ ~halted) => mon_ret.cancel_ok

\* ----------------------------------------- the drawdown stop is lasting

C36_HaltStopsQuoting ==
    [][(main_pc = "coins" /\ main_pc' = "coins" /\ todo' # todo)
       => /\ gov_regime' = "halt" => \A c \in Coins : resting'[c] <= resting[c]
          /\ gov_regime = "halt" => gov_regime' = "halt"]_vars

\* ------------------------------------ the multiplier that prices a grid

\* The atr_fraction of the coin's config, which the screener may change
\* between two ticks: calm, 0.00325 (a volatility multiplier of 2) and
\* chaotic.
TickAtrs == {0, 325, ChaoticAtr}

\* The one-layer grids compute_quote_grid returns when called with the
\* multiplier m, in units of 1 / MultUnit: the half spread is scaled by m.
QuoteGridsAt(mid, m) ==
    [bids : {<< >>, << GridQuote("bid", mid - (HalfSpread(mid) * m) \div MultUnit) >>},
     asks : {<< >>, << GridQuote("ask", mid + (HalfSpread(mid) * m) \div MultUnit) >>}]

\* The loop body in live mode: the grid is computed with the tick's
\* regime_mult.
LiveCoinMultStep ==
    \E c \in Coins, atr \in TickAtrs, grid \in QuoteGridsAt(MidPx, regime_mult) :
        LiveCoin(c, atr, grid)

NextMult ==
    \/ ClockTick
    \/ CacheExpire
    \/ MainTickStart
    \/ MainWhitelistFlush
    \/ MainPeriodicReconcile
    \/ CoinSkipStep
    \/ LiveCoinMultStep
    \/ MainTickEnd

SpecMult == InitLive /\ [][NextMult]_vars

\* C37: the quotes of a coin's grid are priced with the spread multiplier
\* the governor holds after the regime update made with that coin's
\* atr_fraction in the same tick: they lie HalfSpread * multiplier from the
\* mid.
C37_GridUsesFreshMultiplier ==
    coin_ret.gate = "placed"
    => \A i \in DOMAIN coin_ret.targets :
        Abs(coin_ret.targets[i].price - MidPx) * MultUnit = HalfSpread(MidPx) * gov_mult

\* ------------------------------------------ the loop's order-flow feed

\* C38: no trade of the trades feed is recorded into its coin's OFI
\* tracker more than once.
C38_TradeRecordedOnce ==
    \A i \in DOMAIN ofi_fed : ofi_fed[i] <= 1

\* ------------------------------------------------- the cancel counter

\* C39: total_cancels counts every cancellation the exchange confirmed: a
\* pass of the quoting loop over a coin adds the cancels its
\* cancel_coin_orders call confirmed.
C39_EveryCancelCounted ==
    [][(main_pc = "coins" /\ todo' # todo)
        => total_cancels' = total_cancels + coin_ret'.confirmed]_vars

\* ------------------------------------------------------ freedom from deadlock

\* Task t waits for a mutex that task u holds.
WaitsFor(t, u) ==
    /\ Requested(t) # 0
    /\ Program[t][Requested(t)].acq \in holding[u]

\* Task t waits for the engine mutex.
RequestsEngine(t) ==
    /\ Requested(t) # 0
    /\ Program[t][Requested(t)].acq = "engine"

\* The tasks whose loop locks the engine mutex.
EngineTasks ==
    { t \in Tasks : \E n \in DOMAIN Program[t] : Program[t][n].acq = "engine" }

\* Task t moves on by itself: a statement that runs ends (a sleep elapses, an
\* exchange call returns), and a task that waits for a mutex that is free
\* again and again obtains it. The engine's tokio Mutex serves its waiters
\* in the order of their requests; the std mutexes are held for the span of
\* one call, between awaits of the task that holds them. The ingestor's
\* read.next().await ends when the venue sends a message, which nothing
\* here promises.
TaskFair(t) ==
    /\ WF_vars(LeaveStmt(t))
    /\ t # "ingestor" => SF_vars(\E n \in DOMAIN Program[t] : EnterStmt(t, n))

SpecLocksFair == SpecLocks /\ \A t \in Tasks : TaskFair(t)

\* C40: no set of tasks waits in a cycle, each for a mutex that another of
\* the set (or itself) holds, and a task that waits for the engine mutex
\* obtains it.
C40_NoDeadlock ==
    /\ [](\A S \in SUBSET Tasks :
            S # {} => \E t \in S : \A u \in S : ~WaitsFor(t, u))
    /\ \A t \in EngineTasks : RequestsEngine(t) ~> ("engine" \in holding[t])

\* The fill drain waits for the engine mutex, which the drawdown monitor
\* holds while it waits for the auditor's mutex, which the latency reporter
\* holds.
C40_Witness ==
    /\ lock_req["fills"] = 3
    /\ WaitsFor("fills", "dd")
    /\ WaitsFor("dd", "latency")

====
